---- MODULE Spec2Model ----
(***************************************************************************)
(* A model of the resource-lifecycle core of grepx-mongo-libs:             *)
(*   - ConnectionPool (src/src/advanced/connection_pool.py), run by        *)
(*     several caller threads whose steps interleave at the granularity    *)
(*     of the reads and writes of the shared fields;                       *)
(*   - Connection     (src/src/core/connection.py), as the record of its   *)
(*     fields _client, _db, _closed;                                       *)
(*   - Cursor         (src/src/core/cursor.py), with a counting driver.    *)
(* Specification Spec is the pool; SpecCursor is one cursor.               *)
(***************************************************************************)
EXTENDS Integers, Sequences, FiniteSets, TLC

\* ------------------------------------------------------------- bounds
NumThreads == 2      \* caller threads using one pool
MaxConns == 3        \* Connection objects the pool connects in one run
MaxMaxconn == 2      \* largest maxconn a pool is constructed with
MaxDriverCalls == 2  \* driver operation calls one cursor is followed for
MaxDocs == 2         \* documents in a driver result sequence
MaxHandles == 3      \* driver handles opened for one Connection
MaxCursors == 2      \* Cursors created by one Connection
MaxSessions == 3     \* driver sessions started by one Transaction
MaxStarts == 2       \* change streams opened by one ChangeStreamListener
MaxApplies == 4      \* apply_migration calls on one Migration

Threads == 1..NumThreads
ConnIds == 1..MaxConns
NoConn == 0
NoThread == 0
MainThread == 1

VARIABLES
  \* ConnectionPool fields
  maxconn, minconn, pool, created_connections, closed, lock,
  \* the constructor: "constructing", "ready" or "failed", and its loop index
  phase, initI,
  \* the Connection objects, by identity, and the server side of their handles
  conns, nconns, serverUp,
  \* each thread: position, local variable conn, the _create_connection call
  \* site, the connections it has checked out
  pc, conn, site, held,
  \* history of a thread's current getconn call: connection taken from the queue,
  \* outcome of its probe, connection created
  taken, probe, fresh,
  \* the call that ended in the last step, if one did, with its outcome and
  \* history; and whether putconn was ever called
  done, everReleased,
  \* one Cursor, its Connection and the counting driver
  \* (driverCalls: operation calls it received; driverRaised: those that raised;
  \* driverLast: the collection method called last),
  \* the last method called on the cursor with its size argument (0 when it
  \* has none) and its outcome, and the sequence of documents the driver
  \* answered the cursor's operation with
  curOp, curExecuted, curResult, curConn, driverCalls, driverRaised, driverLast,
  curCall, curArg, curRet, curOut, curSource,
  \* each thread's use of the helper ConnectionPool.connection(): position,
  \* local variable conn, how the caller's scope ended, the arguments of the
  \* putconn calls made so far, and the exception that left the helper
  scopePc, scopeConn, scopeExit, scopePuts, scopeRaised,
  \* one Connection on its own: its fields, the driver handles opened
  \* (MongoClient(...) calls) and closed (client.close() calls) for it, and the
  \* last method called on it with its outcome, the method called before that
  \* one, and the number of Cursor objects its execute() has constructed (the
  \* cursor variables above then hold the latest of them)
  connState, handlesOpened, handlesClosed, connCall, connRet, connPrev,
  cursorsCreated,
  \* one Transaction: whether _session holds a session, the field _started,
  \* whether control is in the scope of its "with" statement, the driver
  \* sessions started (start_session calls) and ended (end_session calls), the
  \* state of the driver's transaction in the session held, the calls of
  \* commit_transaction and abort_transaction made, and the last method called
  \* with its outcome
  txSession, txStarted, txPc, sessionsStarted, sessionsEnded, txState,
  txCommits, txAborts, txCall, txRet,
  \* one ChangeStreamListener: the fields _listening, _change_stream (0 for
  \* None, else the number of the stream), _stop_event, _thread (0 for None,
  \* else the number of the thread) and whether _callback is set; the position
  \* of the caller inside start() or stop(); the streams opened so far, the
  \* closed ones and the ones that ended; each listener thread's position and
  \* the stream its next() call runs on; which thread pulled a change from
  \* which stream and delivered it to the callback; whether stop() was called
  \* since the last start; the last method called with its outcome
  lsListening, lsStream, lsStopEvent, lsThread, lsCallback, lsPc, lsStarts,
  lsClosed, lsEnded, lsT, lsPulled, lsDelivered, lsStopped, lsCall, lsRet,
  \* one Migration: the versions recorded in schema_migrations; for every
  \* version how often each of its operations was executed with success and
  \* how often all of them were in one call; the calls made; the last call
  \* with its version, its outcome, the records it found and the number of
  \* operations it executed
  mgRecorded, mgExec, mgComplete, mgCalls, mgCall, mgVersion, mgRet, mgPrev,
  mgDone

poolVars == <<maxconn, minconn, pool, created_connections, closed, lock,
              phase, initI, conns, nconns, serverUp,
              pc, conn, site, held, taken, probe, fresh, done, everReleased>>
cursorVars == <<curOp, curExecuted, curResult, curConn, driverCalls, driverRaised,
                driverLast, curCall, curArg, curRet, curOut, curSource>>
scopeVars == <<scopePc, scopeConn, scopeExit, scopePuts, scopeRaised>>
connVars == <<connState, handlesOpened, handlesClosed, connCall, connRet, connPrev,
              cursorsCreated>>
txVars == <<txSession, txStarted, txPc, sessionsStarted, sessionsEnded, txState,
            txCommits, txAborts, txCall, txRet>>
lsVars == <<lsListening, lsStream, lsStopEvent, lsThread, lsCallback, lsPc,
            lsStarts, lsClosed, lsEnded, lsT, lsPulled, lsDelivered, lsStopped,
            lsCall, lsRet>>
mgVars == <<mgRecorded, mgExec, mgComplete, mgCalls, mgCall, mgVersion, mgRet,
            mgPrev, mgDone>>
advVars == <<txVars, lsVars, mgVars>>
coreVars == <<poolVars, cursorVars, scopeVars, connVars>>
vars == <<poolVars, cursorVars, scopeVars, connVars, advVars>>

\* ------------------------------------------------------------ Connection
\* Connection.__init__: no handle, no database reference, not closed
NewConnection == [client |-> FALSE, db |-> FALSE, closed |-> FALSE]

\* Connection.connect() that succeeds: the handle and the database reference
\* are set; with a handle already present it returns at once
ConnectOk(cn) == IF cn.client THEN cn ELSE [cn EXCEPT !.client = TRUE, !.db = TRUE]

\* Connection.close(): the handle is released, the closed flag set
Close(cn) == [client |-> FALSE, db |-> FALSE, closed |-> TRUE]

\* (mutant) the client accessor testing the handle only
ClientRaisesWithoutHandle(cn) == ~cn.client

\* Connection.client: raises InterfaceError when closed or without a handle
ClientRaises(cn) == cn.closed \/ ~cn.client

\* --------------------------------------------------------- ConnectionPool
\* the pool is the state of a queue.Queue(maxsize=maxconn): a maxsize <= 0
\* is an unbounded queue
QueueFull(q) == maxconn > 0 /\ Len(q) >= maxconn

\* the liveness probe conn.client.admin.command('ping'): it raises when the
\* client accessor raises or the server does not answer
PingOk(c) == ~ClientRaises(conns[c]) /\ serverUp[c]

\* (mutant) a lock that excludes nobody
AcquirableAlways(l) == TRUE

\* "with self._lock:" goes on when no thread holds the lock l
Acquirable(l) == l = NoThread

\* (mutant) no capacity test
CapacityUnlimited == FALSE

\* (mutant) the capacity test off by one
CapacityReachedOffByOne == created_connections > maxconn

\* the capacity test of _create_connection
CapacityReached == created_connections >= maxconn

\* conn.close() on connection c: with the handle its server side goes away
CloseConn(c) ==
  /\ conns' = [conns EXCEPT ![c] = Close(@)]
  /\ serverUp' = [serverUp EXCEPT ![c] = FALSE]

\* no call has just ended
NoCall == [t |-> NoThread, call |-> "none", ret |-> "none", conn |-> NoConn,
           site |-> "none", taken |-> NoConn, probe |-> "none", fresh |-> NoConn]

\* thread t goes on to position p of the method it runs
Goto(t, p) ==
  /\ pc' = [pc EXCEPT ![t] = p]
  /\ done' = NoCall

\* thread t's call of method name ends: ret is the exception raised, "ok" for
\* a plain return, or "conn" with the connection c returned; the frame's
\* locals go away, and done keeps the call's record for one state
EndCall(t, name, r, c, tk, pr, fr) ==
  /\ pc' = [pc EXCEPT ![t] = "idle"]
  /\ done' = [t |-> t, call |-> name, ret |-> r, conn |-> c, site |-> site[t],
              taken |-> tk, probe |-> pr, fresh |-> fr]
  /\ conn' = [conn EXCEPT ![t] = NoConn]
  /\ site' = [site EXCEPT ![t] = "none"]
  /\ taken' = [taken EXCEPT ![t] = NoConn]
  /\ probe' = [probe EXCEPT ![t] = "none"]
  /\ fresh' = [fresh EXCEPT ![t] = NoConn]

\* getconn raises err
GetconnRaise(t, err) ==
  /\ EndCall(t, "getconn", err, NoConn, taken[t], probe[t], NoConn)
  /\ UNCHANGED held

\* getconn returns connection c, which the caller holds from now on; pr is
\* the outcome of the call's probe, fr the connection the call created
GetconnReturn(t, c, pr, fr) ==
  /\ EndCall(t, "getconn", "conn", c, taken[t], pr, fr)
  /\ held' = [held EXCEPT ![t] = @ \cup {c}]

\* --- __init__: the loop "for _ in range(minconn): self._create_connection()"
\* the connection each call returns is dropped
init_loop(t) ==
  /\ phase = "constructing" /\ pc[t] = "init_loop"
  /\ IF initI < minconn
       THEN /\ Goto(t, "create")
            /\ site' = [site EXCEPT ![t] = "init"]
            /\ UNCHANGED <<phase, conn, taken, probe, fresh>>
       ELSE /\ EndCall(t, "init", "ok", NoConn, NoConn, "none", NoConn)
            /\ phase' = "ready"
  /\ UNCHANGED <<maxconn, minconn, pool, created_connections, closed, lock, initI,
                 conns, nconns, serverUp, held, everReleased, cursorVars, scopeVars, connVars, advVars>>

\* --- _create_connection, called from __init__ ("init") and from getconn at
\* line 106 ("l106"), line 112 ("l112") and line 119 ("l119")
\* an exception leaves _create_connection: the lock is released; __init__
\* fails with it; getconn catches only OperationalError, and only at line 112
CreateRaised(t, err) ==
  /\ lock' = NoThread
  /\ UNCHANGED held
  /\ IF site[t] = "init"
       THEN /\ phase' = "failed"
            /\ EndCall(t, "init", err, NoConn, NoConn, "none", NoConn)
       ELSE /\ UNCHANGED phase
            /\ IF site[t] = "l112" /\ err = "OperationalError"
                 THEN /\ Goto(t, "g_wait")
                      /\ UNCHANGED <<conn, site, taken, probe, fresh>>
                 ELSE EndCall(t, "getconn", err, NoConn, taken[t], probe[t], NoConn)

\* "with self._lock:" and, the lock taken, the tests "if self._closed" and
\* "if self._created_connections >= self._maxconn"
create_connection_lock(t) ==
  /\ pc[t] = "create" /\ Acquirable(lock)
  /\ IF closed THEN CreateRaised(t, "InterfaceError")
     ELSE IF CapacityReached THEN CreateRaised(t, "OperationalError")
     ELSE /\ lock' = t
          /\ Goto(t, "create_connect")
          /\ UNCHANGED <<phase, held, conn, site, taken, probe, fresh>>
  /\ UNCHANGED <<maxconn, minconn, pool, created_connections, closed, initI,
                 conns, nconns, serverUp, everReleased, cursorVars, scopeVars, connVars, advVars>>

\* Connection(...), conn.connect(), the increment, "return conn"
create_connection_connect(t) ==
  /\ pc[t] = "create_connect" /\ lock = t
  /\ \/ /\ nconns < MaxConns
        /\ LET c == nconns + 1 IN
           /\ nconns' = c
           /\ conns' = [conns EXCEPT ![c] = ConnectOk(NewConnection)]
           /\ serverUp' = [serverUp EXCEPT ![c] = TRUE]
           /\ created_connections' = created_connections + 1
           /\ lock' = NoThread
           /\ IF site[t] = "init"
                THEN /\ initI' = initI + 1
                     /\ Goto(t, "init_loop")
                     /\ UNCHANGED <<held, conn, site, taken, probe, fresh>>
                ELSE /\ GetconnReturn(t, c, probe[t], c)
                     /\ UNCHANGED initI
           /\ UNCHANGED phase
     \/ \* conn.connect() raises InterfaceError
        /\ CreateRaised(t, "InterfaceError")
        /\ UNCHANGED <<nconns, conns, serverUp, created_connections, initI>>
  /\ UNCHANGED <<maxconn, minconn, pool, closed, everReleased, cursorVars, scopeVars, connVars, advVars>>

\* --- getconn
\* the call, and "if self._closed: raise InterfaceError"
call_getconn(t) ==
  /\ phase = "ready" /\ pc[t] = "idle"
  /\ IF closed THEN GetconnRaise(t, "InterfaceError")
     ELSE /\ Goto(t, "g_get")
          /\ UNCHANGED <<held, conn, site, taken, probe, fresh>>
  /\ UNCHANGED <<maxconn, minconn, pool, created_connections, closed, lock, phase,
                 initI, conns, nconns, serverUp, everReleased, cursorVars, scopeVars, connVars, advVars>>

\* (mutant) a get that leaves the connection in the queue
PoolAfterPeek(q) == q

\* self._pool.get(timeout=timeout) on a non-empty queue returns Head(q) and
\* leaves the rest
PoolAfterGet(q) == Tail(q)

\* (mutant) the probe's outcome is ignored: the connection is kept
KeepAlways(c) == TRUE

\* (mutant) the connection taken from the queue is always replaced
KeepNever(c) == FALSE

\* "try: ping  except Exception: conn = self._create_connection()": the
\* connection taken from the queue is kept when the probe does not raise
KeepAfterProbe(c) == PingOk(c)

\* pool.get on a non-empty queue, the probe of the connection it returns (no
\* other thread has that connection), and then "return conn", or
\* _create_connection at call site createSite
TakeAndProbe(t, createSite) ==
  /\ pool # <<>>
  /\ LET c == Head(pool)
         pr == IF PingOk(c) THEN "ok" ELSE "fail"
     IN /\ pool' = PoolAfterGet(pool)
        /\ IF KeepAfterProbe(c)
             THEN /\ EndCall(t, "getconn", "conn", c, c, pr, NoConn)
                  /\ held' = [held EXCEPT ![t] = @ \cup {c}]
             ELSE /\ conn' = [conn EXCEPT ![t] = c]
                  /\ taken' = [taken EXCEPT ![t] = c]
                  /\ probe' = [probe EXCEPT ![t] = pr]
                  /\ site' = [site EXCEPT ![t] = createSite]
                  /\ Goto(t, "create")
                  /\ UNCHANGED <<held, fresh>>

\* (mutant) a get without a timeout: it waits on an empty queue for ever
TimeoutNever(q) == FALSE

\* get(timeout=timeout) raises Empty: the queue is empty and the timeout,
\* finite, has run out
TimeoutEnds(q) == q = <<>>

\* lines 98-108; on an empty queue get waits, and raises Empty when the
\* timeout ends (any time), which leads to line 112
getconn_get(t) ==
  /\ pc[t] = "g_get"
  /\ \/ TakeAndProbe(t, "l106")
     \/ /\ TimeoutEnds(pool)
        /\ Goto(t, "create")
        /\ site' = [site EXCEPT ![t] = "l112"]
        /\ UNCHANGED <<pool, conn, taken, probe, fresh, held>>
  /\ UNCHANGED <<maxconn, minconn, created_connections, closed, lock, phase,
                 initI, conns, nconns, serverUp, everReleased, cursorVars, scopeVars, connVars, advVars>>

\* lines 115-120: the second wait, after OperationalError; its Empty is not
\* caught
getconn_wait(t) ==
  /\ pc[t] = "g_wait"
  /\ \/ TakeAndProbe(t, "l119")
     \/ /\ TimeoutEnds(pool)
        /\ GetconnRaise(t, "Empty")
        /\ UNCHANGED pool
  /\ UNCHANGED <<maxconn, minconn, created_connections, closed, lock, phase,
                 initI, conns, nconns, serverUp, everReleased, cursorVars, scopeVars, connVars, advVars>>

\* --- putconn(conn)
\* putconn returns
PutconnReturn(t, c) ==
  /\ EndCall(t, "putconn", "ok", c, NoConn, "none", NoConn)
  /\ UNCHANGED held

\* (mutant) putconn without the test of conn.closed
ReportsOpen(cn) == FALSE

\* the property Connection.closed, which putconn reads at line 128
ReportsClosed(cn) == cn.closed

\* the call on connection c with the Connection in state cn, by which the
\* caller gives it up; "if self._closed: conn.close(); return"; "if
\* conn.closed:", which leads to the decrement under the lock at line 129
\* (site "l129"; "l138" is the decrement after a put on a full queue)
PutconnEnter(t, c, cn) ==
  /\ everReleased' = TRUE
  /\ held' = [held EXCEPT ![t] = @ \ {c}]
  /\ IF closed
       THEN /\ conns' = [conns EXCEPT ![c] = Close(cn)]
            /\ EndCall(t, "putconn", "ok", c, NoConn, "none", NoConn)
       ELSE /\ conns' = [conns EXCEPT ![c] = cn]
            /\ Goto(t, IF ReportsClosed(cn) THEN "p_lock" ELSE "p_put")
            /\ conn' = [conn EXCEPT ![t] = c]
            /\ site' = [site EXCEPT ![t] = IF ReportsClosed(cn) THEN "l129" ELSE "none"]
            /\ UNCHANGED <<taken, probe, fresh>>
  /\ serverUp' = [serverUp EXCEPT ![c] = IF closed \/ cn.closed THEN FALSE ELSE @]
  /\ UNCHANGED <<maxconn, minconn, pool, created_connections, closed, lock, phase,
                 initI, nconns, cursorVars, scopeVars, connVars, advVars>>

\* a caller releases a connection it has checked out
call_putconn(t, c) ==
  /\ phase = "ready" /\ pc[t] = "idle" /\ c \in held[t]
  /\ PutconnEnter(t, c, conns[c])

\* a caller closes a connection it has checked out (Connection.close()), and
\* releases it (the pool reads a checked-out connection only in putconn)
call_putconn_closed(t, c) ==
  /\ phase = "ready" /\ pc[t] = "idle" /\ c \in held[t]
  /\ PutconnEnter(t, c, Close(conns[c]))

\* "self._pool.put_nowait(conn)"; on a full queue, conn.close() and then the
\* decrement under the lock
putconn_put(t) ==
  /\ pc[t] = "p_put"
  /\ IF ~QueueFull(pool)
       THEN /\ pool' = Append(pool, conn[t])
            /\ PutconnReturn(t, conn[t])
            /\ UNCHANGED <<conns, serverUp>>
       ELSE /\ CloseConn(conn[t])
            /\ Goto(t, "p_lock")
            /\ site' = [site EXCEPT ![t] = "l138"]
            /\ UNCHANGED <<pool, held, conn, taken, probe, fresh>>
  /\ UNCHANGED <<maxconn, minconn, created_connections, closed, lock, phase,
                 initI, nconns, everReleased, cursorVars, scopeVars, connVars, advVars>>

\* "with self._lock:" at line 129 or 138
putconn_lock(t) ==
  /\ pc[t] = "p_lock" /\ Acquirable(lock)
  /\ lock' = t
  /\ Goto(t, "p_dec")
  /\ UNCHANGED <<maxconn, minconn, pool, created_connections, closed, phase,
                 initI, conns, nconns, serverUp, conn, site, taken, probe, fresh,
                 held, everReleased, cursorVars, scopeVars, connVars, advVars>>

\* "self._created_connections -= 1", and the lock is released
putconn_dec(t) ==
  /\ pc[t] = "p_dec"
  /\ created_connections' = created_connections - 1
  /\ lock' = NoThread
  /\ PutconnReturn(t, conn[t])
  /\ UNCHANGED <<maxconn, minconn, pool, closed, phase,
                 initI, conns, nconns, serverUp, everReleased, cursorVars, scopeVars, connVars, advVars>>

\* --- closeall
\* the call, and "self._closed = True"; site keeps whether any other call
\* was in progress when this one began ("busy") or none was ("quiet").
\* The pool is closed by the thread that owns it, any number of times; the
\* threads being alike, this is every run in which no two closeall calls
\* overlap
call_closeall(t) ==
  /\ phase = "ready" /\ pc[t] = "idle" /\ t = MainThread
  /\ closed' = TRUE
  /\ Goto(t, "c_drain")
  /\ site' = [site EXCEPT ![t] = IF \A u \in Threads : pc[u] = "idle"
                                   THEN "quiet" ELSE "busy"]
  /\ UNCHANGED <<maxconn, minconn, pool, created_connections, lock, phase,
                 initI, conns, nconns, serverUp, conn, taken, probe, fresh,
                 held, everReleased, cursorVars, scopeVars, connVars, advVars>>

\* (mutant) a loop that ends before its first turn
DrainedAtOnce(q) == TRUE

\* the loop test "while not self._pool.empty()" fails
Drained(q) == q = <<>>

\* one turn of "while not self._pool.empty(): conn = get_nowait(); conn.close()";
\* taken keeps the connection of the last turn
closeall_drain(t) ==
  /\ pc[t] = "c_drain"
  /\ IF Drained(pool)
       THEN /\ Goto(t, "c_lock")
            /\ UNCHANGED <<pool, conns, serverUp, taken>>
       ELSE /\ pool' = Tail(pool)
            /\ CloseConn(Head(pool))
            /\ taken' = [taken EXCEPT ![t] = Head(pool)]
            /\ Goto(t, "c_drain")
  /\ UNCHANGED <<maxconn, minconn, created_connections, closed, lock, phase,
                 initI, nconns, conn, site, probe, fresh,
                 held, everReleased, cursorVars, scopeVars, connVars, advVars>>

\* "with self._lock:" at line 152
closeall_lock(t) ==
  /\ pc[t] = "c_lock" /\ Acquirable(lock)
  /\ lock' = t
  /\ Goto(t, "c_reset")
  /\ UNCHANGED <<maxconn, minconn, pool, created_connections, closed, phase,
                 initI, conns, nconns, serverUp, conn, site, taken, probe, fresh,
                 held, everReleased, cursorVars, scopeVars, connVars, advVars>>

\* "self._created_connections = 0", and the lock is released
closeall_reset(t) ==
  /\ pc[t] = "c_reset"
  /\ created_connections' = 0
  /\ lock' = NoThread
  /\ EndCall(t, "closeall", "ok", NoConn, taken[t], "none", NoConn)
  /\ UNCHANGED <<maxconn, minconn, pool, closed, phase,
                 initI, conns, nconns, serverUp, held, everReleased, cursorVars, scopeVars, connVars, advVars>>

\* --- the pool's environment
\* the server side of an idle connection's handle goes away: its ping raises
\* from now on (a ping is only ever sent on a connection taken from the queue)
server_drop(c) ==
  /\ \E i \in 1..Len(pool) : pool[i] = c
  /\ serverUp[c] /\ conns[c].client
  /\ serverUp' = [serverUp EXCEPT ![c] = FALSE]
  /\ done' = NoCall
  /\ UNCHANGED <<maxconn, minconn, pool, created_connections, closed, lock, phase,
                 initI, conns, nconns, pc, conn, site, taken, probe, fresh,
                 held, everReleased, cursorVars, scopeVars, connVars, advVars>>

\* ----------------------------------------------------------------- Cursor
\* the operation kinds Cursor.execute dispatches on, and a kind it does not know
Operations == {"find", "find_one", "insert_one", "insert_many", "update_one",
               "update_many", "delete_one", "delete_many", "replace_one",
               "aggregate", "count_documents"}
UnknownOperations == {"count"}

Docs == 1..MaxDocs
DocSeqs == UNION {[1..n -> Docs] : n \in 0..MaxDocs}

\* raw results, in one shape: None; a lazy sequence of documents (docs: those
\* not pulled yet); a single document; a write result; an integer
\* the count attributes rowcount looks for on the result of a *_many write,
\* and a result object that has none of them
CountAttrs == {"inserted_count", "modified_count", "deleted_count"}
NoCounts == [a \in CountAttrs |-> 0]

NoneResult == [k |-> "None", docs |-> <<>>, n |-> 0, ack |-> FALSE,
               has |-> {}, cnt |-> NoCounts]
IterResult(ds) == [k |-> "iter", docs |-> ds, n |-> 0, ack |-> FALSE,
  has |-> {}, cnt |-> NoCounts]
DocResult(d) == [k |-> "doc", docs |-> <<d>>, n |-> 0, ack |-> FALSE,
  has |-> {}, cnt |-> NoCounts]
\* the result object of a *_one write: the count it reports (inserted, modified
\* or deleted documents: n) and its acknowledged flag
WriteResult(n, ack) == [k |-> "write", docs |-> <<>>, n |-> n, ack |-> ack,
  has |-> {}, cnt |-> NoCounts]
\* the result object of a *_many write: its acknowledged flag, the count
\* attributes it has (has) and their values (cnt; 0 for one it has not)
ManyResult(has, cnt, ack) == [k |-> "write", docs |-> <<>>, n |-> 0, ack |-> ack,
  has |-> has, cnt |-> cnt]
IntResult(n) == [k |-> "int", docs |-> <<>>, n |-> n, ack |-> FALSE,
  has |-> {}, cnt |-> NoCounts]
\* the driver call raises instead of returning
DriverRaises == [k |-> "raise", docs |-> <<>>, n |-> 0, ack |-> FALSE,
  has |-> {}, cnt |-> NoCounts]

\* what the driver may answer to an operation call of kind op
DriverResponses(op) ==
  {DriverRaises} \cup
  (CASE op \in {"find", "aggregate"} -> {IterResult(ds) : ds \in DocSeqs}
     [] op = "find_one" -> {NoneResult} \cup {DocResult(d) : d \in Docs}
     [] op = "count_documents" -> {IntResult(n) : n \in 0..MaxDocs}
     [] op \in {"insert_many", "update_many", "delete_many"} ->
          {ManyResult(hc[1], hc[2], a) :
             hc \in {x \in (SUBSET CountAttrs) \X [CountAttrs -> 0..MaxDocs] :
                       \A at \in CountAttrs \ x[1] : x[2][at] = 0},
             a \in BOOLEAN}
     [] OTHER -> {WriteResult(n, a) : n \in 0..MaxDocs, a \in BOOLEAN})

\* Connection.collection(name): raises InterfaceError when closed or without
\* a database reference
CollectionRaises(cn) == cn.closed \/ ~cn.db

\* Cursor.__init__ on a connected Connection (Connection.execute refuses any other)
CursorInit(op) ==
  /\ curOp = op
  /\ curExecuted = FALSE
  /\ curResult = NoneResult
  /\ curConn = ConnectOk(NewConnection)
  /\ driverCalls = 0 /\ driverRaised = 0 /\ driverLast = "none"
  /\ curCall = "none" /\ curRet = "none" /\ curOut = NoneResult
  /\ curArg = 0 /\ curSource = <<>>

\* (mutant) the dispatch chain without its last branch
DispatchedWithoutCount(op) == op \in Operations \ {"count_documents"}

\* the if/elif chain of execute() has a branch for kind op
Dispatched(op) == op \in Operations

\* the collection method the branch for kind op calls: collection.find for
\* "find", collection.insert_one for "insert_one", and so on
DriverMethod(op) == op

\* the error that leaves execute() for whatever was raised inside its try
\* block: ProgrammingError("Operation failed: ...")
OperationFailed == "ProgrammingError"

\* whether execute() goes as far as the driver's operation call
ReachesDriver ==
  /\ ~curExecuted
  /\ ~curConn.closed /\ ~CollectionRaises(curConn)
  /\ Dispatched(curOp)

\* (mutant) execute() without the test of the executed flag
ExecuteUnguarded(resp) ==
  LET same == [executed |-> curExecuted, result |-> curResult,
               calls |-> driverCalls, raised |-> driverRaised,
               last |-> driverLast, source |-> curSource, exc |-> "none"]
  IN IF curConn.closed THEN [same EXCEPT !.exc = "InterfaceError"]
     ELSE IF CollectionRaises(curConn) THEN [same EXCEPT !.exc = OperationFailed]
     ELSE IF ~Dispatched(curOp) THEN [same EXCEPT !.exc = OperationFailed]
     ELSE IF resp = DriverRaises
       THEN [same EXCEPT !.calls = @ + 1, !.raised = @ + 1,
                         !.last = DriverMethod(curOp), !.exc = OperationFailed]
       ELSE [same EXCEPT !.executed = TRUE, !.result = resp, !.calls = @ + 1,
                         !.last = DriverMethod(curOp), !.source = resp.docs]

\* (mutant) execute() without its own test of the Connection's closed flag
ExecuteWithoutClosedTest(resp) ==
  LET same == [executed |-> curExecuted, result |-> curResult,
               calls |-> driverCalls, raised |-> driverRaised,
               last |-> driverLast, source |-> curSource, exc |-> "none"]
  IN IF curExecuted THEN same
     ELSE IF CollectionRaises(curConn) THEN [same EXCEPT !.exc = OperationFailed]
     ELSE IF ~Dispatched(curOp) THEN [same EXCEPT !.exc = OperationFailed]
     ELSE IF resp = DriverRaises
       THEN [same EXCEPT !.calls = @ + 1, !.raised = @ + 1,
                         !.last = DriverMethod(curOp), !.exc = OperationFailed]
       ELSE [same EXCEPT !.executed = TRUE, !.result = resp, !.calls = @ + 1,
                         !.last = DriverMethod(curOp), !.source = resp.docs]

\* Cursor.execute() when the driver answers resp: the cursor's fields and the
\* driver's counters after it, and the exception it raises ("none": returns self)
Execute(resp) ==
  LET same == [executed |-> curExecuted, result |-> curResult,
               calls |-> driverCalls, raised |-> driverRaised,
               last |-> driverLast, source |-> curSource, exc |-> "none"]
  IN IF curExecuted THEN same
     ELSE IF curConn.closed THEN [same EXCEPT !.exc = "InterfaceError"]
     ELSE IF CollectionRaises(curConn) THEN [same EXCEPT !.exc = OperationFailed]
     ELSE IF ~Dispatched(curOp) THEN [same EXCEPT !.exc = OperationFailed]
     ELSE IF resp = DriverRaises
       THEN [same EXCEPT !.calls = @ + 1, !.raised = @ + 1,
                         !.last = DriverMethod(curOp), !.exc = OperationFailed]
       ELSE [same EXCEPT !.executed = TRUE, !.result = resp, !.calls = @ + 1,
                         !.last = DriverMethod(curOp), !.source = resp.docs]

\* "if not self._executed: self.execute()" at the head of every fetch
AutoExecute(resp) == Execute(resp)

\* the document factory (dict_factory: the document itself)
DocumentFactory(d) == d

\* the value fetchone returns on raw result r, and the result left behind
FetchOne(r) ==
  IF curOp = "find_one"
    THEN [out |-> IF r.k = "None" THEN NoneResult
                  ELSE DocResult(DocumentFactory(r.docs[1])),
          left |-> r]
  ELSE IF curOp = "find"
    THEN IF r.k = "None" \/ r.docs = <<>>
           THEN [out |-> NoneResult, left |-> r]
           ELSE [out |-> DocResult(DocumentFactory(Head(r.docs))),
                 left |-> [r EXCEPT !.docs = Tail(@)]]
  ELSE [out |-> r, left |-> r]

\* (mutant) a fetchmany that leaves the sequence where it was
DropNothing(ds, n) == ds

\* the first n elements of a sequence (all of it when it is shorter)
Take(ds, n) == [i \in 1..(IF n < Len(ds) THEN n ELSE Len(ds)) |-> ds[i]]
Drop(ds, n) == [i \in 1..(IF n < Len(ds) THEN Len(ds) - n ELSE 0) |-> ds[i + n]]
MapFactory(ds) == [i \in 1..Len(ds) |-> DocumentFactory(ds[i])]

\* (mutant) fetchmany that, for find_one, wraps whatever fetchone returned
\* in a list without testing it for None
FetchManyWithoutNoneTest(r, size) ==
  IF curOp = "find_one"
    THEN [out |-> IterResult(<<FetchOne(r).out>>), left |-> r]
    ELSE [out |-> IterResult(MapFactory(Take(r.docs, size))),
          left |-> [r EXCEPT !.docs = Drop(@, size)]]

\* the list fetchmany(size) returns on raw result r, and the result left behind
FetchMany(r, size) ==
  IF curOp = "find"
    THEN IF r.k = "None" THEN [out |-> IterResult(<<>>), left |-> r]
         ELSE [out |-> IterResult(MapFactory(Take(r.docs, size))),
               left |-> [r EXCEPT !.docs = Drop(@, size)]]
  ELSE IF curOp = "find_one"
    THEN [out |-> IF FetchOne(r).out.k = "None" THEN IterResult(<<>>)
                  ELSE IterResult(FetchOne(r).out.docs),
          left |-> r]
  ELSE [out |-> IterResult(<<>>), left |-> r]

\* fetchall and iteration pull every remaining element
FetchAll(r) == FetchMany(r, MaxDocs)

\* the documents __iter__ yields on raw result r when run to its end, and the
\* result left behind
Iterate(r) ==
  IF curOp = "find"
    THEN IF r.k = "None" THEN [out |-> IterResult(<<>>), left |-> r]
         ELSE [out |-> IterResult(MapFactory(r.docs)),
               left |-> [r EXCEPT !.docs = <<>>]]
  ELSE IF curOp = "find_one"
    THEN [out |-> IF FetchOne(r).out.k = "None" THEN IterResult(<<>>)
                  ELSE IterResult(FetchOne(r).out.docs),
          left |-> r]
  ELSE [out |-> IterResult(<<>>), left |-> r]

\* a method of the cursor was called with size argument arg: after its
\* implicit or explicit execute (e), it raised e.exc, or returned out and
\* left the raw result left
CursorCall(name, arg, e, out, left) ==
  /\ curCall' = name
  /\ curArg' = arg
  /\ curSource' = e.source
  /\ curExecuted' = e.executed
  /\ driverCalls' = e.calls
  /\ driverRaised' = e.raised
  /\ driverLast' = e.last
  /\ IF e.exc # "none"
       THEN /\ curRet' = e.exc
            /\ curOut' = NoneResult
            /\ curResult' = e.result
       ELSE /\ curRet' = "returned"
            /\ curOut' = out
            /\ curResult' = left
  /\ UNCHANGED <<curOp, curConn, poolVars, scopeVars, connVars, advVars>>

\* the answers to draw for a call of a cursor method: those of the driver
\* when the method's execute() reaches it, and no answer at all otherwise
DriverAnswers == IF ReachesDriver THEN DriverResponses(curOp) ELSE {DriverRaises}

\* the driver is followed for MaxDriverCalls operation calls
DriverBound == ReachesDriver => driverCalls < MaxDriverCalls

cursor_execute ==
  /\ DriverBound
  /\ \E resp \in DriverAnswers :
       LET e == Execute(resp) IN CursorCall("execute", 0, e, NoneResult, e.result)

cursor_fetchone ==
  /\ DriverBound
  /\ \E resp \in DriverAnswers :
       LET e == AutoExecute(resp)
           f == FetchOne(e.result)
       IN CursorCall("fetchone", 0, e, f.out, f.left)

cursor_fetchmany ==
  /\ DriverBound
  /\ \E resp \in DriverAnswers, size \in 0..MaxDocs :
       LET e == AutoExecute(resp)
           f == FetchMany(e.result, size)
       IN CursorCall("fetchmany", size, e, f.out, f.left)

cursor_fetchall ==
  /\ DriverBound
  /\ \E resp \in DriverAnswers :
       LET e == AutoExecute(resp)
           f == FetchAll(e.result)
       IN CursorCall("fetchall", 0, e, f.out, f.left)

\* "for doc in cursor", run until the generator ends
cursor_iter ==
  /\ DriverBound
  /\ \E resp \in DriverAnswers :
       LET e == AutoExecute(resp)
           f == Iterate(e.result)
       IN CursorCall("iter", 0, e, f.out, f.left)

\* __next__: fetchone, with StopIteration in place of None
cursor_next ==
  /\ DriverBound
  /\ \E resp \in DriverAnswers :
       LET e == AutoExecute(resp)
           f == FetchOne(e.result)
       IN IF e.exc = "none" /\ f.out.k = "None"
            THEN CursorCall("next", 0, [e EXCEPT !.exc = "StopIteration"], f.out, f.left)
            ELSE CursorCall("next", 0, e, f.out, f.left)

\* __next__ called again and again on an executed cursor with raw result r
\* raises StopIteration within the next k + 1 calls: execute() returns at the
\* flag test, so every call is fetchone on what the call before left
RECURSIVE Exhausts(_, _)
Exhausts(r, k) ==
  \/ FetchOne(r).out.k = "None"
  \/ k > 0 /\ Exhausts(FetchOne(r).left, k - 1)

\* (mutant) rowcount without the test of the executed flag
RowcountWithoutExecutedTest ==
  IF curOp \in {"insert_one", "update_one", "delete_one", "replace_one"}
    THEN IF curResult.ack THEN 1 ELSE 0
  ELSE IF curOp \in {"insert_many", "update_many", "delete_many"}
    THEN IF "inserted_count" \in curResult.has THEN curResult.cnt["inserted_count"]
         ELSE IF "modified_count" \in curResult.has THEN curResult.cnt["modified_count"]
         ELSE IF "deleted_count" \in curResult.has THEN curResult.cnt["deleted_count"]
         ELSE 0
  ELSE IF curOp = "count_documents" THEN curResult.n
  ELSE -1

\* (mutant) rowcount looking for the deleted count first
RowcountDeletedFirst ==
  IF ~curExecuted THEN -1
  ELSE IF curOp \in {"insert_one", "update_one", "delete_one", "replace_one"}
    THEN IF curResult.ack THEN 1 ELSE 0
  ELSE IF curOp \in {"insert_many", "update_many", "delete_many"}
    THEN IF "deleted_count" \in curResult.has THEN curResult.cnt["deleted_count"]
         ELSE IF "modified_count" \in curResult.has THEN curResult.cnt["modified_count"]
         ELSE IF "inserted_count" \in curResult.has THEN curResult.cnt["inserted_count"]
         ELSE 0
  ELSE IF curOp = "count_documents" THEN curResult.n
  ELSE -1

\* the value of the property Cursor.rowcount
Rowcount ==
  IF ~curExecuted THEN -1
  ELSE IF curOp \in {"insert_one", "update_one", "delete_one", "replace_one"}
    THEN IF curResult.ack THEN 1 ELSE 0
  ELSE IF curOp \in {"insert_many", "update_many", "delete_many"}
    THEN IF "inserted_count" \in curResult.has THEN curResult.cnt["inserted_count"]
         ELSE IF "modified_count" \in curResult.has THEN curResult.cnt["modified_count"]
         ELSE IF "deleted_count" \in curResult.has THEN curResult.cnt["deleted_count"]
         ELSE 0
  ELSE IF curOp = "count_documents" THEN curResult.n
  ELSE -1

\* Cursor.rowcount is read: no execute(), no assignment
cursor_rowcount ==
  /\ curCall' = "rowcount"
  /\ curArg' = 0
  /\ curRet' = "returned"
  /\ curOut' = IntResult(Rowcount)
  /\ UNCHANGED <<curOp, curExecuted, curResult, curConn, driverCalls, driverRaised,
                 driverLast, curSource, poolVars, scopeVars, connVars, advVars>>

\* the cursor's Connection is closed by its owner
cursor_conn_close ==
  /\ ~curConn.closed
  /\ curConn' = Close(curConn)
  /\ UNCHANGED <<curOp, curExecuted, curResult, driverCalls, driverRaised,
                 driverLast, curCall, curArg, curRet, curOut, curSource,
                 poolVars, scopeVars, connVars, advVars>>

\* ------------------------------------------- ConnectionPool.connection()
\* the helper is a generator under @contextmanager: "conn = self.getconn(
\* timeout)", "try: yield conn", "finally: self.putconn(conn)"
ScopeErrors == {"InterfaceError", "OperationalError", "Empty"}

\* no use of the helper: the state of a thread outside any "with"
ScopeAtRest ==
  /\ scopePc = [t \in Threads |-> "out"]
  /\ scopeConn = [t \in Threads |-> NoConn]
  /\ scopeExit = [t \in Threads |-> "none"]
  /\ scopePuts = [t \in Threads |-> <<>>]
  /\ scopeRaised = [t \in Threads |-> "none"]

\* (mutant) the release in an "else:" clause, which an error skips
ReleasesOnNormalExit(kind) == kind = "normal"

\* "finally:" runs its body however the try block was left
ReleasesOnExit(kind) == TRUE

\* "with pool.connection() as c:" begins: the generator starts and calls
\* getconn
scope_enter(t) ==
  /\ scopePc[t] \in {"out", "left"}
  /\ scopePc' = [scopePc EXCEPT ![t] = "getconn"]
  /\ scopeConn' = [scopeConn EXCEPT ![t] = NoConn]
  /\ scopeExit' = [scopeExit EXCEPT ![t] = "none"]
  /\ scopePuts' = [scopePuts EXCEPT ![t] = <<>>]
  /\ scopeRaised' = [scopeRaised EXCEPT ![t] = "none"]
  /\ UNCHANGED <<poolVars, cursorVars, connVars, advVars>>

\* getconn returns connection c, which the generator yields to the scope
scope_getconn_returns(t, c) ==
  /\ scopePc[t] = "getconn"
  /\ scopePc' = [scopePc EXCEPT ![t] = "body"]
  /\ scopeConn' = [scopeConn EXCEPT ![t] = c]
  /\ UNCHANGED <<scopeExit, scopePuts, scopeRaised, poolVars, cursorVars, connVars, advVars>>

\* getconn raises: the call is outside the try block, the error leaves the
\* generator and the scope is never entered
scope_getconn_raises(t, err) ==
  /\ scopePc[t] = "getconn"
  /\ scopePc' = [scopePc EXCEPT ![t] = "left"]
  /\ scopeRaised' = [scopeRaised EXCEPT ![t] = err]
  /\ UNCHANGED <<scopeConn, scopeExit, scopePuts, poolVars, cursorVars, connVars, advVars>>

\* the caller's scope ends, normally or with an error, which the context
\* manager throws into the generator at the yield
scope_body_ends(t, kind) ==
  /\ scopePc[t] = "body"
  /\ scopePc' = [scopePc EXCEPT ![t] = "finally"]
  /\ scopeExit' = [scopeExit EXCEPT ![t] = kind]
  /\ UNCHANGED <<scopeConn, scopePuts, scopeRaised, poolVars, cursorVars, connVars, advVars>>

\* the generator leaves the try block: "finally: self.putconn(conn)", and
\* the error of the scope, if any, goes on to the caller
scope_finally(t) ==
  /\ scopePc[t] = "finally"
  /\ scopePc' = [scopePc EXCEPT ![t] = "left"]
  /\ scopePuts' = [scopePuts EXCEPT ![t] =
                     IF ReleasesOnExit(scopeExit[t]) THEN Append(@, scopeConn[t]) ELSE @]
  /\ scopeRaised' = [scopeRaised EXCEPT ![t] =
                       IF scopeExit[t] = "error" THEN "ScopeError" ELSE "none"]
  /\ UNCHANGED <<scopeConn, scopeExit, poolVars, cursorVars, connVars, advVars>>

\* ------------------------------------------------- one Connection object
\* a Connection just constructed, no method called yet
ConnAtRest ==
  /\ connState = NewConnection
  /\ handlesOpened = 0 /\ handlesClosed = 0
  /\ connCall = "none" /\ connRet = "none" /\ connPrev = "none"
  /\ cursorsCreated = 0

\* (mutant) connect() without the test of the handle
OpensHandleAlways(c) == TRUE

\* "if self._client is not None: return" does not return: connect() goes on
\* to MongoClient(...)
OpensHandle(c) == ~c.client

\* where connect() may raise: before the handle is assigned (the imports,
\* the parameters, MongoClient itself), at "self._db = self._client[db_name]",
\* or in the with_options calls
ConnectRaiseStages == {"before", "database", "options"}

\* the Connection after a connect() that raised at stage st
ConnectRaised(c, st) ==
  CASE st = "before" -> c
    [] st = "database" -> [c EXCEPT !.client = TRUE]
    [] st = "options" -> [c EXCEPT !.client = TRUE, !.db = TRUE]

\* a method of the Connection was called and ended with r, leaving the
\* fields c2 and having opened o and closed k driver handles; a Cursor made
\* by this Connection refers to it (self._connection) and sees its fields
ConnCall(name, r, c2, o, k) ==
  /\ connCall' = name
  /\ connPrev' = connCall
  /\ connRet' = r
  /\ connState' = c2
  /\ handlesOpened' = handlesOpened + o
  /\ handlesClosed' = handlesClosed + k
  /\ curConn' = IF cursorsCreated > 0 THEN c2 ELSE curConn
  /\ UNCHANGED <<cursorsCreated, curOp, curExecuted, curResult, driverCalls,
                 driverRaised, driverLast, curCall, curArg, curRet, curOut,
                 curSource, poolVars, scopeVars, advVars>>

\* connect() called as part of method name (connect itself, or __enter__)
Connect(name) ==
  IF ~OpensHandle(connState)
    THEN ConnCall(name, "returned_at_once", connState, 0, 0)
    ELSE /\ handlesOpened < MaxHandles
         /\ \/ ConnCall(name, "returned", ConnectOk(connState), 1, 0)
            \/ \E st \in ConnectRaiseStages :
                 ConnCall(name, "InterfaceError", ConnectRaised(connState, st),
                          IF st = "before" THEN 0 ELSE 1, 0)

\* Connection.connect()
conn_connect ==
  /\ Connect("connect")

\* Connection.__enter__: "self.connect(); return self"
conn_enter ==
  /\ Connect("__enter__")

\* (mutant) close() calling the handle's close without the test of the handle
ReleasesHandleAlways(c) == TRUE

\* "if self._client:" in close(): the handle's close() is called
ReleasesHandle(c) == c.client

\* Connection.close()
conn_close ==
  /\ ConnCall("close", "returned", Close(connState), 0, IF ReleasesHandle(connState) THEN 1 ELSE 0)

\* how the scope of a "with" statement may be left
ExitPaths == {"normal", "error"}

\* Connection.__exit__: "self.close()"; it returns None, so an error raised
\* in the scope goes on to the caller
conn_exit(path) ==
  /\ ConnCall("__exit__", IF path = "error" THEN "returned_error_propagates" ELSE "returned",
              Close(connState), 0, IF ReleasesHandle(connState) THEN 1 ELSE 0)

\* (mutant) execute() testing the closed flag only
ExecuteRaisesWhenClosed(c) == c.closed

\* "if self._closed or self._db is None: raise InterfaceError" in execute()
ExecuteRaises(c) == c.closed \/ ~c.db

\* Cursor.__init__(connection, collection, operation): the fields of the new
\* Cursor; the driver is not called
CursorNew(op, c) ==
  /\ curOp' = op
  /\ curConn' = c
  /\ curResult' = NoneResult
  /\ curExecuted' = FALSE
  /\ curCall' = "__init__" /\ curRet' = "returned" /\ curOut' = NoneResult
  /\ curArg' = 0 /\ curSource' = <<>>
  /\ UNCHANGED <<driverCalls, driverRaised, driverLast>>

\* Connection.execute(collection, operation): InterfaceError, or a new Cursor
conn_execute(op) ==
  /\ connCall' = "execute"
  /\ connPrev' = connCall
  /\ UNCHANGED <<connState, handlesOpened, handlesClosed, poolVars, scopeVars,
                 advVars>>
  /\ IF ExecuteRaises(connState)
       THEN /\ connRet' = "InterfaceError"
            /\ UNCHANGED <<cursorsCreated, cursorVars>>
       ELSE /\ cursorsCreated < MaxCursors
            /\ connRet' = "returned"
            /\ cursorsCreated' = cursorsCreated + 1
            /\ CursorNew(op, connState)

\* Connection.collection(name)
conn_collection ==
  /\ ConnCall("collection", IF CollectionRaises(connState) THEN "InterfaceError" ELSE "returned", connState, 0, 0)

\* Connection.database
conn_database ==
  /\ ConnCall("database", IF CollectionRaises(connState) THEN "InterfaceError" ELSE "returned", connState, 0, 0)

\* Connection.client
conn_client ==
  /\ ConnCall("client", IF ClientRaises(connState) THEN "InterfaceError" ELSE "returned", connState, 0, 0)

\* Connection.closed
conn_closed ==
  /\ ConnCall("closed", IF connState.closed THEN "True" ELSE "False", connState, 0, 0)

\* ----------------------------------------------------------- Transaction
\* Transaction.__init__: no session, not started; no "with" entered
TxAtRest ==
  /\ txSession = FALSE /\ txStarted = FALSE
  /\ txPc = "out"
  /\ sessionsStarted = 0 /\ sessionsEnded = 0
  /\ txState = "none"
  /\ txCommits = 0 /\ txAborts = 0
  /\ txCall = "none" /\ txRet = "none"

\* where __enter__ may raise: in "self._conn.client.start_session()" (the
\* client accessor or the driver), or in "self._session.start_transaction()"
EnterOutcomes == {"ok", "start_session_raises", "start_transaction_raises"}

\* Transaction.__enter__: "try: session, start_transaction, _started = True
\* except Exception: raise DatabaseError"; when it raises, the "with"
\* statement does not enter the scope and never calls __exit__
tx_enter(o) ==
  /\ txPc = "out"
  /\ sessionsStarted < MaxSessions
  /\ txCall' = "__enter__"
  /\ CASE o = "start_session_raises" ->
            /\ txRet' = "DatabaseError"
            /\ UNCHANGED <<txSession, txStarted, txPc, sessionsStarted, txState>>
       [] o = "start_transaction_raises" ->
            /\ txSession' = TRUE
            /\ sessionsStarted' = sessionsStarted + 1
            /\ txState' = "none"
            /\ txRet' = "DatabaseError"
            /\ UNCHANGED <<txStarted, txPc>>
       [] o = "ok" ->
            /\ txSession' = TRUE
            /\ sessionsStarted' = sessionsStarted + 1
            /\ txState' = "active"
            /\ txStarted' = TRUE
            /\ txPc' = "body"
            /\ txRet' = "returned"
  /\ UNCHANGED <<sessionsEnded, txCommits, txAborts, coreVars, lsVars, mgVars>>

\* Transaction.session: the session held, or None
tx_session ==
  /\ txCall' = "session"
  /\ txRet' = IF txSession THEN "session" ELSE "None"
  /\ UNCHANGED <<txSession, txStarted, txPc, sessionsStarted, sessionsEnded,
                 txState, txCommits, txAborts, coreVars, lsVars, mgVars>>

\* what commit_transaction() or abort_transaction() may do
DriverOutcomes == {"ok", "raises"}

\* Transaction.__exit__ when the scope was left on path: "if self._session:
\* try: commit or abort  finally: end_session(); _session = None", then
\* "_started = False", which an exception of commit or abort skips
tx_exit(path, o) ==
  /\ txPc = "body"
  /\ txPc' = "out"
  /\ txCall' = "__exit__"
  /\ IF txSession
       THEN /\ txCommits' = IF path = "normal" THEN txCommits + 1 ELSE txCommits
            /\ txAborts' = IF path = "normal" THEN txAborts ELSE txAborts + 1
            /\ sessionsEnded' = sessionsEnded + 1
            /\ txSession' = FALSE
            /\ IF o = "raises"
                 THEN /\ txRet' = "DriverError"
                      /\ UNCHANGED <<txStarted, txState>>
                 ELSE /\ txState' = IF path = "normal" THEN "committed" ELSE "aborted"
                      /\ txStarted' = FALSE
                      /\ txRet' = IF path = "error" THEN "returned_error_propagates"
                                  ELSE "returned"
       ELSE /\ txStarted' = FALSE
            /\ txRet' = IF path = "error" THEN "returned_error_propagates" ELSE "returned"
            /\ UNCHANGED <<sessionsEnded, txSession, txState, txCommits, txAborts>>
  /\ UNCHANGED <<sessionsStarted, coreVars, lsVars, mgVars>>

\* -------------------------------------------------- ChangeStreamListener
\* the listener threads, numbered by the start() that created them
ListenerThreads == 1..MaxStarts

\* ChangeStreamListener.__init__ and watch(): not listening, no stream, no
\* thread, event not set; no thread exists
LsAtRest ==
  /\ lsListening = FALSE
  /\ lsStream = 0
  /\ lsStopEvent = FALSE
  /\ lsThread = 0
  /\ lsCallback = TRUE
  /\ lsPc = "idle"
  /\ lsStarts = 0
  /\ lsClosed = {} /\ lsEnded = {}
  /\ lsT = [t \in ListenerThreads |-> [pc |-> "unborn", stream |-> 0]]
  /\ lsPulled = {} /\ lsDelivered = {}
  /\ lsStopped = FALSE
  /\ lsCall = "none" /\ lsRet = "none"

\* what start() meets: a closed Connection, a target whose watch() raises, or
\* a change stream
StartOutcomes == {"ok", "conn_closed", "watch_raises"}

\* start(), lines 47-66: "if self._listening: return", "if ... closed: raise
\* OperationalError", then "self._change_stream = target.watch(...)", whose
\* exception is re-raised as OperationalError
ls_start(o) ==
  /\ lsPc = "idle"
  /\ lsCall' = "start"
  /\ IF lsListening
       THEN /\ lsRet' = "returned"
            /\ UNCHANGED <<lsStream, lsStarts, lsPc>>
       ELSE IF o # "ok"
       THEN /\ lsRet' = "OperationalError"
            /\ UNCHANGED <<lsStream, lsStarts, lsPc>>
       ELSE /\ lsStarts < MaxStarts
            /\ lsStarts' = lsStarts + 1
            /\ lsStream' = lsStarts + 1
            /\ lsPc' = "start_listening"
            /\ lsRet' = "running"
  /\ UNCHANGED <<lsListening, lsStopEvent, lsThread, lsCallback, lsClosed, lsEnded,
                 lsT, lsPulled, lsDelivered, lsStopped, coreVars, txVars, mgVars>>

\* start(), line 68: "self._listening = True"
ls_start_listening ==
  /\ lsPc = "start_listening"
  /\ lsListening' = TRUE
  /\ lsPc' = "start_clear"
  /\ UNCHANGED <<lsStream, lsStopEvent, lsThread, lsCallback, lsStarts, lsClosed,
                 lsEnded, lsT, lsPulled, lsDelivered, lsStopped, lsCall, lsRet,
                 coreVars, txVars, mgVars>>

\* start(), line 69: "self._stop_event.clear()"
ls_start_clear ==
  /\ lsPc = "start_clear"
  /\ lsStopEvent' = FALSE
  /\ lsPc' = "start_thread"
  /\ UNCHANGED <<lsListening, lsStream, lsThread, lsCallback, lsStarts, lsClosed,
                 lsEnded, lsT, lsPulled, lsDelivered, lsStopped, lsCall, lsRet,
                 coreVars, txVars, mgVars>>

\* start(), lines 70-71: a new thread is created, kept in _thread and started
\* at the top of _listen_loop; start() returns
ls_start_thread ==
  /\ lsPc = "start_thread"
  /\ lsThread' = lsStarts
  /\ lsT' = [lsT EXCEPT ![lsStarts] = [pc |-> "test", stream |-> 0]]
  /\ lsStopped' = FALSE
  /\ lsPc' = "idle"
  /\ lsRet' = "returned"
  /\ UNCHANGED <<lsListening, lsStream, lsStopEvent, lsCallback, lsStarts, lsClosed,
                 lsEnded, lsPulled, lsDelivered, lsCall, coreVars, txVars, mgVars>>

\* stop(), lines 77-80: "if not self._listening: return", then
\* "self._listening = False"
ls_stop ==
  /\ lsPc = "idle"
  /\ lsCall' = "stop"
  /\ lsStopped' = TRUE
  /\ IF ~lsListening
       THEN /\ lsRet' = "returned"
            /\ UNCHANGED <<lsListening, lsPc>>
       ELSE /\ lsListening' = FALSE
            /\ lsPc' = "stop_event"
            /\ lsRet' = "running"
  /\ UNCHANGED <<lsStream, lsStopEvent, lsThread, lsCallback, lsStarts, lsClosed,
                 lsEnded, lsT, lsPulled, lsDelivered, coreVars, txVars, mgVars>>

\* stop(), line 81: "self._stop_event.set()"
ls_stop_event ==
  /\ lsPc = "stop_event"
  /\ lsStopEvent' = TRUE
  /\ lsPc' = "stop_close"
  /\ UNCHANGED <<lsListening, lsStream, lsThread, lsCallback, lsStarts, lsClosed,
                 lsEnded, lsT, lsPulled, lsDelivered, lsStopped, lsCall, lsRet,
                 coreVars, txVars, mgVars>>

\* stop(), lines 83-87: "if self._change_stream: close()", errors swallowed
ls_stop_close ==
  /\ lsPc = "stop_close"
  /\ lsClosed' = IF lsStream # 0 THEN lsClosed \cup {lsStream} ELSE lsClosed
  /\ lsPc' = IF lsStream # 0 THEN "stop_none" ELSE "stop_join"
  /\ UNCHANGED <<lsListening, lsStream, lsStopEvent, lsThread, lsCallback, lsStarts,
                 lsEnded, lsT, lsPulled, lsDelivered, lsStopped, lsCall, lsRet,
                 coreVars, txVars, mgVars>>

\* stop(), line 88: "self._change_stream = None"
ls_stop_none ==
  /\ lsPc = "stop_none"
  /\ lsStream' = 0
  /\ lsPc' = "stop_join"
  /\ UNCHANGED <<lsListening, lsStopEvent, lsThread, lsCallback, lsStarts, lsClosed,
                 lsEnded, lsT, lsPulled, lsDelivered, lsStopped, lsCall, lsRet,
                 coreVars, txVars, mgVars>>

\* stop(), lines 90-91: "self._thread.join(timeout=1.0)" returns when the
\* thread has finished, or after one second with the thread still running
ls_stop_join ==
  /\ lsPc = "stop_join"
  /\ lsRet' = IF lsThread = 0 \/ lsT[lsThread].pc = "dead"
                THEN "returned" ELSE "returned_join_timeout"
  /\ lsPc' = "idle"
  /\ UNCHANGED <<lsListening, lsStream, lsStopEvent, lsThread, lsCallback, lsStarts,
                 lsClosed, lsEnded, lsT, lsPulled, lsDelivered, lsStopped, lsCall,
                 coreVars, txVars, mgVars>>

\* a step of listener thread t from position at to position to
ListenerStep(t, at, to, g) ==
  /\ lsT[t].pc = at
  /\ lsT' = [lsT EXCEPT ![t] = [pc |-> to, stream |-> g]]

\* _listen_loop, line 96, first operand: "while self._listening"
ls_test_listening(t) ==
  /\ ListenerStep(t, "test", IF lsListening THEN "test_event" ELSE "finally", 0)
  /\ UNCHANGED <<lsListening, lsStream, lsStopEvent, lsThread, lsCallback, lsPc,
                 lsStarts, lsClosed, lsEnded, lsPulled, lsDelivered, lsStopped,
                 lsCall, lsRet, coreVars, txVars, mgVars>>

\* _listen_loop, line 96, second operand: "and not self._stop_event.is_set()"
ls_test_event(t) ==
  /\ ListenerStep(t, "test_event", IF lsStopEvent THEN "finally" ELSE "if_stream", 0)
  /\ UNCHANGED <<lsListening, lsStream, lsStopEvent, lsThread, lsCallback, lsPc,
                 lsStarts, lsClosed, lsEnded, lsPulled, lsDelivered, lsStopped,
                 lsCall, lsRet, coreVars, txVars, mgVars>>

\* _listen_loop, line 98: "if self._change_stream:", else the next round
ls_if_stream(t) ==
  /\ ListenerStep(t, "if_stream", IF lsStream # 0 THEN "call_next" ELSE "test", 0)
  /\ UNCHANGED <<lsListening, lsStream, lsStopEvent, lsThread, lsCallback, lsPc,
                 lsStarts, lsClosed, lsEnded, lsPulled, lsDelivered, lsStopped,
                 lsCall, lsRet, coreVars, txVars, mgVars>>

\* _listen_loop, line 100: "self._change_stream.next()" reads the field again
\* and calls next() on the stream found; on None the AttributeError goes to
\* the handler of lines 106-109 and the loop goes on
ls_call_next(t) ==
  /\ ListenerStep(t, "call_next", IF lsStream # 0 THEN "in_next" ELSE "test", lsStream)
  /\ UNCHANGED <<lsListening, lsStream, lsStopEvent, lsThread, lsCallback, lsPc,
                 lsStarts, lsClosed, lsEnded, lsPulled, lsDelivered, lsStopped,
                 lsCall, lsRet, coreVars, txVars, mgVars>>

\* what next() of a change stream does: it returns a change, raises
\* StopIteration (the stream ended or was closed), or raises another error
NextOutcomes == {"change", "StopIteration", "Exception"}

\* _listen_loop, lines 100-109: next() returns on the stream it was called on;
\* a change goes to the callback if there is one (lines 101-102), StopIteration
\* leaves the loop (103-105), another error is printed and the loop goes on
ls_next_returns(t, o) ==
  /\ lsT[t].pc = "in_next"
  /\ o = "change" => lsT[t].stream \notin lsClosed
  /\ CASE o = "change" ->
            /\ lsPulled' = lsPulled \cup {<<t, lsT[t].stream>>}
            /\ IF lsCallback
                 THEN /\ ListenerStep(t, "in_next", "callback", lsT[t].stream)
                      /\ lsDelivered' = lsDelivered \cup {<<t, lsT[t].stream>>}
                 ELSE /\ ListenerStep(t, "in_next", "test", 0)
                      /\ UNCHANGED lsDelivered
            /\ UNCHANGED lsEnded
       [] o = "StopIteration" ->
            /\ ListenerStep(t, "in_next", "finally", 0)
            /\ lsEnded' = lsEnded \cup {lsT[t].stream}
            /\ UNCHANGED <<lsPulled, lsDelivered>>
       [] o = "Exception" ->
            /\ ListenerStep(t, "in_next", "test", 0)
            /\ UNCHANGED <<lsPulled, lsDelivered, lsEnded>>
  /\ UNCHANGED <<lsListening, lsStream, lsStopEvent, lsThread, lsCallback, lsPc,
                 lsStarts, lsClosed, lsStopped, lsCall, lsRet, coreVars, txVars, mgVars>>

\* _listen_loop, line 102: the callback returns, or raises into the handler
\* of lines 106-109; the loop goes on
ls_callback_returns(t) ==
  /\ ListenerStep(t, "callback", "test", 0)
  /\ UNCHANGED <<lsListening, lsStream, lsStopEvent, lsThread, lsCallback, lsPc,
                 lsStarts, lsClosed, lsEnded, lsPulled, lsDelivered, lsStopped,
                 lsCall, lsRet, coreVars, txVars, mgVars>>

\* _listen_loop, lines 110-111: "finally: self._listening = False"; the
\* thread ends
ls_finally(t) ==
  /\ ListenerStep(t, "finally", "dead", 0)
  /\ lsListening' = FALSE
  /\ UNCHANGED <<lsStream, lsStopEvent, lsThread, lsCallback, lsPc, lsStarts,
                 lsClosed, lsEnded, lsPulled, lsDelivered, lsStopped, lsCall, lsRet,
                 coreVars, txVars, mgVars>>

\* the positions of a thread inside the while loop of _listen_loop
LoopPositions == {"test", "test_event", "if_stream", "call_next", "in_next", "callback"}

\* ------------------------------------------------------------- Migration
\* the operation types apply_migration dispatches on (lines 65-84)
MigrationOps == {"create_collection", "drop_collection", "create_index",
                 "drop_index", "insert", "update", "delete"}

\* the migrations applied: a version and its list of operation types, the
\* last one with a type apply_migration does not know
MigrationVersions == {"001", "002", "003"}
OperationsOf(version) ==
  CASE version = "001" -> <<"create_collection", "insert">>
    [] version = "002" -> <<"update">>
    [] version = "003" -> <<"insert", "rename">>

\* Migration.__init__: schema_migrations exists and is empty
MgAtRest ==
  /\ mgRecorded = {}
  /\ mgExec = [v \in MigrationVersions |-> [i \in 1..Len(OperationsOf(v)) |-> 0]]
  /\ mgComplete = [v \in MigrationVersions |-> 0]
  /\ mgCalls = 0
  /\ mgCall = "none" /\ mgVersion = "none" /\ mgRet = "none"
  /\ mgPrev = {} /\ mgDone = 0

\* get_applied_migrations: the versions of the documents of schema_migrations
get_applied_migrations == mgRecorded

\* the number of operations of ops executed with success when the driver
\* raises in the fails-th call (0: in none): the loop of lines 63-86 stops at
\* the first operation that raises, an unknown type included
RECURSIVE Executed(_, _, _)
Executed(ops, fails, i) ==
  IF i > Len(ops) THEN Len(ops)
  ELSE IF ops[i] \notin MigrationOps \/ fails = i THEN i - 1
  ELSE Executed(ops, fails, i + 1)

\* Migration.apply_migration(version, OperationsOf(version)), the driver
\* raising in its fails-th call if it makes that many: operation 1..n, then
\* the insert_one of the record (n + 1); -1: the find of
\* get_applied_migrations raises, outside the try block
apply_migration(version, fails) ==
  LET ops == OperationsOf(version)
      n == Executed(ops, fails, 1)
      all == n = Len(ops)
  IN /\ mgCalls < MaxApplies
     /\ mgCalls' = mgCalls + 1
     /\ mgCall' = "apply_migration"
     /\ mgVersion' = version
     /\ mgPrev' = mgRecorded
     /\ IF fails = -1
          THEN /\ mgRet' = "DriverError"
               /\ mgDone' = 0
               /\ UNCHANGED <<mgRecorded, mgExec, mgComplete>>
          ELSE IF version \in get_applied_migrations
          THEN /\ mgRet' = "returned"
               /\ mgDone' = 0
               /\ UNCHANGED <<mgRecorded, mgExec, mgComplete>>
          ELSE /\ mgDone' = n
               /\ mgExec' = [mgExec EXCEPT ![version] =
                               [i \in 1..Len(ops) |-> IF i <= n THEN @[i] + 1 ELSE @[i]]]
               /\ mgComplete' = [mgComplete EXCEPT ![version] = IF all THEN @ + 1 ELSE @]
               /\ IF all /\ fails # Len(ops) + 1
                    THEN /\ mgRecorded' = mgRecorded \cup {version}
                         /\ mgRet' = "returned"
                    ELSE /\ mgRet' = "ProgrammingError"
                         /\ UNCHANGED mgRecorded
     /\ UNCHANGED <<coreVars, txVars, lsVars>>

\* the advanced classes, none of them used
AdvAtRest ==
  /\ TxAtRest
  /\ LsAtRest
  /\ MgAtRest

\* ------------------------------------------------------- specification
\* a pool under construction: ConnectionPool(minconn=m, maxconn=M) has set
\* its fields and is about to enter the loop of __init__
PoolInit(m, M) ==
  /\ maxconn = M /\ minconn = m
  /\ pool = <<>>
  /\ created_connections = 0
  /\ closed = FALSE
  /\ lock = NoThread
  /\ phase = "constructing" /\ initI = 0
  /\ conns = [c \in ConnIds |-> NewConnection]
  /\ nconns = 0
  /\ serverUp = [c \in ConnIds |-> FALSE]
  /\ pc = [t \in Threads |-> IF t = MainThread THEN "init_loop" ELSE "idle"]
  /\ conn = [t \in Threads |-> NoConn]
  /\ site = [t \in Threads |-> "none"]
  /\ held = [t \in Threads |-> {}]
  /\ done = NoCall
  /\ taken = [t \in Threads |-> NoConn]
  /\ probe = [t \in Threads |-> "none"]
  /\ fresh = [t \in Threads |-> NoConn]
  /\ everReleased = FALSE

\* a cursor nobody uses
CursorAtRest == CursorInit("find")

Init ==
  /\ \E M \in 1..MaxMaxconn : \E m \in 0..(M + 1) : PoolInit(m, M)
  /\ CursorAtRest
  /\ ScopeAtRest
  /\ ConnAtRest
  /\ AdvAtRest

Next ==
  \/ \E t \in Threads :
       \/ init_loop(t)
       \/ create_connection_lock(t)
       \/ create_connection_connect(t)
       \/ call_getconn(t)
       \/ getconn_get(t)
       \/ getconn_wait(t)
       \/ putconn_put(t)
       \/ putconn_lock(t)
       \/ putconn_dec(t)
       \/ call_closeall(t)
       \/ closeall_drain(t)
       \/ closeall_lock(t)
       \/ closeall_reset(t)
  \/ \E t \in Threads, c \in ConnIds : call_putconn(t, c)
  \/ \E t \in Threads, c \in ConnIds : call_putconn_closed(t, c)
  \/ \E c \in ConnIds : server_drop(c)

Spec == Init /\ [][Next]_vars

\* the pool under a scheduler that lets every thread run: a timed get ends
\* (with a connection or with Empty), a thread inside a "with self._lock:"
\* block reaches its end (connect() returns), and a thread waiting for a lock
\* that is released again and again gets it
Fairness ==
  \A t \in Threads :
    /\ WF_vars(getconn_get(t))
    /\ WF_vars(getconn_wait(t))
    /\ SF_vars(create_connection_lock(t))
    /\ WF_vars(create_connection_connect(t))
    /\ WF_vars(putconn_dec(t))
    /\ WF_vars(closeall_reset(t))

SpecLive == Init /\ [][Next]_vars /\ Fairness

\* one cursor, of any kind, on a connected Connection; the pool is not used
InitCursor ==
  /\ PoolInit(0, 1)
  /\ \E op \in Operations \cup UnknownOperations : CursorInit(op)
  /\ ScopeAtRest
  /\ ConnAtRest
  /\ AdvAtRest

NextCursor ==
  \/ cursor_execute
  \/ cursor_fetchone
  \/ cursor_fetchmany
  \/ cursor_fetchall
  \/ cursor_iter
  \/ cursor_next
  \/ cursor_rowcount
  \/ cursor_conn_close

SpecCursor == InitCursor /\ [][NextCursor]_vars

\* the helper connection(), used by every thread; getconn's outcome is any of
\* those the pool's getconn has
InitScope ==
  /\ PoolInit(0, 1)
  /\ CursorAtRest
  /\ ScopeAtRest
  /\ ConnAtRest
  /\ AdvAtRest

NextScope ==
  \/ \E t \in Threads : scope_enter(t)
  \/ \E t \in Threads, c \in ConnIds : scope_getconn_returns(t, c)
  \/ \E t \in Threads, err \in ScopeErrors : scope_getconn_raises(t, err)
  \/ \E t \in Threads, kind \in {"normal", "error"} : scope_body_ends(t, kind)
  \/ \E t \in Threads : scope_finally(t)

SpecScope == InitScope /\ [][NextScope]_vars

\* one Connection and any sequence of calls of its methods
InitConn ==
  /\ PoolInit(0, 1)
  /\ CursorAtRest
  /\ ScopeAtRest
  /\ ConnAtRest
  /\ AdvAtRest

NextConn ==
  \/ conn_connect
  \/ conn_enter
  \/ conn_close
  \/ \E path \in ExitPaths : conn_exit(path)
  \/ \E op \in Operations \cup UnknownOperations : conn_execute(op)
  \/ conn_collection
  \/ conn_database
  \/ conn_client
  \/ conn_closed

SpecConn == InitConn /\ [][NextConn]_vars

\* one Transaction object, used in any number of "with" statements
InitTx ==
  /\ PoolInit(0, 1)
  /\ CursorAtRest
  /\ ScopeAtRest
  /\ ConnAtRest
  /\ AdvAtRest

NextTx ==
  \/ \E o \in EnterOutcomes : tx_enter(o)
  \/ \E path \in ExitPaths, o \in DriverOutcomes : tx_exit(path, o)
  \/ tx_session

SpecTx == InitTx /\ [][NextTx]_vars

\* one ChangeStreamListener with a callback, started and stopped by its owner
\* while its listener threads run
InitListener ==
  /\ PoolInit(0, 1)
  /\ CursorAtRest
  /\ ScopeAtRest
  /\ ConnAtRest
  /\ AdvAtRest

NextListener ==
  \/ \E o \in StartOutcomes : ls_start(o)
  \/ ls_start_listening
  \/ ls_start_clear
  \/ ls_start_thread
  \/ ls_stop
  \/ ls_stop_event
  \/ ls_stop_close
  \/ ls_stop_none
  \/ ls_stop_join
  \/ \E t \in ListenerThreads :
        \/ ls_test_listening(t)
        \/ ls_test_event(t)
        \/ ls_if_stream(t)
        \/ ls_call_next(t)
        \/ \E o \in NextOutcomes : ls_next_returns(t, o)
        \/ ls_callback_returns(t)
        \/ ls_finally(t)

SpecListener == InitListener /\ [][NextListener]_vars

\* one Migration, apply_migration called by one caller at a time, no rollback
InitMigration ==
  /\ PoolInit(0, 1)
  /\ CursorAtRest
  /\ ScopeAtRest
  /\ ConnAtRest
  /\ AdvAtRest

NextMigration ==
  \E version \in MigrationVersions, fails \in -1..3 : apply_migration(version, fails)

SpecMigration == InitMigration /\ [][NextMigration]_vars

\* ------------------------------------------------------------ properties
AllIdle == \A t \in Threads : pc[t] = "idle"
CheckedOut == UNION {held[t] : t \in Threads}
Quiescent == phase = "ready" /\ ~closed /\ AllIdle /\ lock = NoThread

\* C1: in every reachable state of the pool, whatever the interleaving of
\* getconn, putconn and closeall, created_connections is at most maxconn.
C1_CreatedAtMostMaxconn == created_connections <= maxconn

\* the pool is at capacity with a connection checked out, and a getconn was
\* refused a new connection and waits
C1_Witness ==
  /\ phase = "ready" /\ created_connections = maxconn
  /\ \E t \in Threads : pc[t] = "g_wait"
  /\ CheckedOut # {}

\* C2: callers releasing each connection at most once, no connection is
\* checked out by two callers at the same time.
C2_ExclusiveCheckout ==
  \A t, u \in Threads : t # u => held[t] \cap held[u] = {}

\* a getconn has returned a connection that went through the idle queue
\* while another caller holds a connection too
C2_Witness ==
  /\ done.call = "getconn" /\ done.ret = "conn" /\ done.conn = done.taken
  /\ \E u \in Threads : u # done.t /\ held[u] # {}

\* C3: once execute() has succeeded, every later execute(), fetchone(),
\* fetchmany(), fetchall() or iteration makes no driver operation call (the
\* one successful call stays the only one), the executed flag stays true and
\* execute() returns the cursor.
C3_ExecutedIsInert ==
  /\ [](curExecuted => /\ driverCalls - driverRaised = 1
                       /\ (curCall = "execute" => curRet = "returned"))
  /\ [][curExecuted => (curExecuted' /\ driverCalls' = driverCalls
                                     /\ driverRaised' = driverRaised)]_vars

\* execute() returned on a closed connection: the cursor was executed before
C3_Witness ==
  /\ curExecuted /\ curConn.closed
  /\ curCall = "execute" /\ curRet = "returned" /\ driverCalls = 1

\* C4: over every sequence of execute() and fetch calls on a cursor, those in
\* which a driver call raises included, the driver operation is called at
\* most once.
C4_AtMostOneDriverCall == driverCalls <= 1

\* C5: an open pool holds no counted-but-unreachable connection: with no
\* call in progress, created_connections is the number of idle connections
\* plus the number of connections checked out.
C5_NoCountedUnreachable ==
  Quiescent => created_connections = Len(pool) + Cardinality(CheckedOut)

\* C6: when the constructor returns, minconn connected connections exist,
\* all of them in the idle queue, and created_connections = minconn.
C6_ConstructorSeedsIdle ==
  (done.call = "init" /\ done.ret = "ok") =>
     /\ created_connections = minconn
     /\ nconns = minconn
     /\ Len(pool) = minconn
     /\ \A i \in 1..Len(pool) : ~ClientRaises(conns[pool[i]])

\* C7: with no release, the first maxconn acquires succeed: a getconn ends
\* with a timeout or exhaustion error only when maxconn connections are
\* checked out already.
C7_AcquireUpToMaxconn ==
  (/\ done.call = "getconn" /\ done.ret \in {"Empty", "OperationalError"}
   /\ Quiescent /\ ~everReleased)
    => Cardinality(CheckedOut) >= maxconn

\* C8: at capacity, a getconn that finds a released connection in the idle
\* queue takes it and, its probe succeeding, returns that connection; no
\* connection is created and created_connections stays within maxconn.
C8_ReuseAtCapacity ==
  [][\A t \in Threads :
       (/\ pc[t] \in {"g_get", "g_wait"} /\ pc'[t] # pc[t]
        /\ pool # <<>> /\ PingOk(Head(pool))
        /\ created_connections = maxconn)
         => /\ done'.t = t /\ done'.ret = "conn" /\ done'.conn = Head(pool)
            /\ Head(pool) \in held'[t]
            /\ nconns' = nconns
            /\ created_connections' = created_connections
            /\ created_connections' <= maxconn]_vars

\* a getconn found the queue empty and the pool at capacity, waited, and
\* returned a connection another caller released
C8_Witness ==
  /\ done.call = "getconn" /\ done.ret = "conn"
  /\ done.site = "l112" /\ done.probe = "ok"
  /\ done.conn = done.taken /\ done.fresh = NoConn
  /\ created_connections = maxconn /\ pool = <<>>

\* C9: a getconn whose idle connection fails the probe returns a fresh
\* replacement whenever a connection can be made, at every value of
\* created_connections: it never ends with the capacity error.
C9_DeadIdleIsReplaced ==
  ~(done.call = "getconn" /\ done.probe = "fail" /\ done.ret = "OperationalError")

\* C10: a connection getconn returns was created by that call, or was taken
\* from the idle queue and passed the probe in that call; a connection whose
\* probe failed is never returned.
C10_ReturnedFreshOrProbed ==
  (done.call = "getconn" /\ done.ret = "conn") =>
    /\ \/ (done.fresh # NoConn /\ done.conn = done.fresh)
       \/ (done.taken # NoConn /\ done.conn = done.taken /\ done.probe = "ok")
    /\ (done.probe = "fail" => done.conn # done.taken)
    /\ ~ClientRaises(conns[done.conn])

\* a getconn whose idle connection failed the probe returned a replacement
C10_Witness ==
  /\ done.call = "getconn" /\ done.ret = "conn" /\ done.probe = "fail"
  /\ done.taken # NoConn /\ done.conn = done.fresh /\ done.fresh # done.taken

\* C11: a connection that reports itself closed, released to an open pool,
\* costs created_connections exactly one and is never put in the idle queue:
\* no closed connection is ever in the queue, so no acquire can return it.
C11_ClosedReleaseDiscards ==
  /\ [](\A i \in 1..Len(pool) : ~conns[pool[i]].closed)
  /\ [](\A t \in Threads :
          (pc[t] \in {"p_lock", "p_dec"} /\ site[t] = "l129")
            => /\ conns[conn[t]].closed
               /\ \A i \in 1..Len(pool) : pool[i] # conn[t])
  /\ [][\A t \in Threads :
          (pc[t] = "p_dec" /\ site[t] = "l129" /\ pc'[t] # pc[t])
            => /\ created_connections' = created_connections - 1
               /\ pool' = pool
               /\ done'.call = "putconn" /\ done'.ret = "ok"]_vars

\* a putconn on an open pool has returned after discarding a connection its
\* caller had closed
C11_Witness ==
  /\ done.call = "putconn" /\ done.site = "l129" /\ ~closed
  /\ conns[done.conn].closed

\* C12: created_connections is never negative.
C12_CounterNeverNegative == created_connections >= 0

\* the positions of getconn and of closeall
GetconnPositions == {"g_get", "g_wait", "create", "create_connect"}
CloseallPositions == {"c_drain", "c_lock", "c_reset"}

\* C13: closeall called with no other call in progress leaves, when it
\* returns, the idle queue empty and created_connections 0; while it runs the
\* queue only loses connections, each closed as it goes and closed for good;
\* and every getconn called on the closed pool raises InterfaceError at once
\* and creates no connection.
C13_CloseallEmptiesAndCloses ==
  /\ []((done.call = "closeall" /\ done.site = "quiet")
          => /\ pool = <<>>
             /\ created_connections = 0
             /\ (done.taken # NoConn => ClientRaises(conns[done.taken])))
  /\ [][\A t \in Threads :
          (pc[t] \in CloseallPositions /\ site[t] = "quiet")
            => \/ pool' = pool
               \/ /\ pool # <<>> /\ pool' = Tail(pool)
                  /\ conns'[Head(pool)] = Close(conns[Head(pool)])]_vars
  /\ [][\A c \in ConnIds : conns[c].closed => conns'[c] = Close(conns[c])]_vars
  /\ [][\A t \in Threads :
          (closed /\ pc[t] = "idle")
            => /\ pc'[t] \notin GetconnPositions
               /\ (done'.t = t /\ done'.call = "getconn")
                    => /\ done'.ret = "InterfaceError"
                       /\ nconns' = nconns
                       /\ created_connections' = created_connections]_vars

\* closeall, begun with no other call in progress, has returned after
\* draining and closing at least one idle connection
C13_Witness ==
  /\ done.call = "closeall" /\ done.site = "quiet"
  /\ done.taken # NoConn /\ conns[done.taken].closed
  /\ closed /\ pool = <<>> /\ created_connections = 0

\* C14: once closeall and every putconn have returned, the idle queue of the
\* closed pool is empty.
C14_NothingStrandedAfterClose ==
  (closed /\ AllIdle) => pool = <<>>

\* the positions inside a "with self._lock:" block
LockedPositions == {"create_connect", "p_dec", "c_reset"}

\* C16: created_connections changes only in a step of the thread that holds
\* the lock, inside a "with self._lock:" block, and by exactly that block's
\* update (+1 on create, -1 on a discard, 0 on closeall's reset); a thread
\* inside such a block holds the lock, so no update is lost.
C16_CounterUpdatesUnderLock ==
  /\ [](\A t \in Threads : pc[t] \in LockedPositions => lock = t)
  /\ [][created_connections' # created_connections
          => \E t \in Threads :
               /\ lock = t /\ pc[t] \in LockedPositions /\ pc'[t] # pc[t]
               /\ lock' = NoThread
               /\ created_connections' =
                    (CASE pc[t] = "create_connect" -> created_connections + 1
                       [] pc[t] = "p_dec" -> created_connections - 1
                       [] pc[t] = "c_reset" -> 0)]_vars

\* a thread is about to decrement under the lock while another waits for
\* the lock in _create_connection
C16_Witness ==
  \E t, u \in Threads :
    /\ t # u /\ lock = t /\ pc[t] = "p_dec"
    /\ pc[u] = "create"

\* C18: a constructor called with minconn > maxconn never returns a pool: it
\* raises OperationalError after maxconn connections (InterfaceError when a
\* connect failed before that), and no method of the pool ever runs.
C18_MinAboveMaxFails ==
  minconn > maxconn =>
    /\ phase # "ready"
    /\ \A t \in Threads : held[t] = {} /\ (t # MainThread => pc[t] = "idle")
    /\ done.call = "init" =>
         \/ done.ret = "OperationalError" /\ created_connections = maxconn
         \/ done.ret = "InterfaceError" /\ created_connections < maxconn

\* the constructor has raised OperationalError on its (maxconn+1)th connection
C18_Witness ==
  /\ minconn > maxconn /\ phase = "failed"
  /\ done.call = "init" /\ done.ret = "OperationalError"
  /\ created_connections = maxconn

\* thread t is inside a getconn call
InGetconn(t) == pc[t] \in GetconnPositions /\ site[t] # "init"

\* C17: every getconn call ends, with a connection or with an error, even
\* when the pool stays at capacity and no connection is released.
C17_GetconnEnds ==
  \A t \in Threads : InGetconn(t) ~> ~InGetconn(t)

\* a getconn that waited at capacity, while nothing was ever released, has
\* ended with the timeout
C17_Witness ==
  /\ done.call = "getconn" /\ done.ret = "Empty"
  /\ created_connections = maxconn /\ ~everReleased /\ ~closed

\* C15: the helper connection() calls putconn exactly once, with the
\* connection getconn returned, however the caller's scope ends, and not at
\* all when getconn raised; it makes no putconn call before the scope ends.
C15_ScopeReleasesOnce ==
  \A t \in Threads :
    /\ Len(scopePuts[t]) <= 1
    /\ scopePc[t] \in {"getconn", "body", "finally"} => scopePuts[t] = <<>>
    /\ scopePc[t] = "left" =>
         IF scopeConn[t] # NoConn
           THEN /\ scopePuts[t] = <<scopeConn[t]>>
                /\ scopeExit[t] \in {"normal", "error"}
                /\ scopeRaised[t] = (IF scopeExit[t] = "error" THEN "ScopeError" ELSE "none")
           ELSE scopePuts[t] = <<>> /\ scopeRaised[t] \in ScopeErrors

\* one use of the helper ended with an error raised in the scope, another
\* with a getconn that raised
C15_Witness ==
  \E t, u \in Threads :
    /\ scopePc[t] = "left" /\ scopeExit[t] = "error" /\ Len(scopePuts[t]) = 1
    /\ scopePc[u] = "left" /\ scopeRaised[u] \in ScopeErrors /\ scopePuts[u] = <<>>

\* C19: once close() has been called on a Connection, the closed flag is
\* true and the Connection holds no driver handle, whatever is called later.
C19_ClosedHoldsNoHandle ==
  connState.closed => ~connState.client

\* C20: connect() on a Connection that has a driver handle returns at once,
\* opens no handle and leaves the handle, the database reference and the
\* closed flag as they were.
C20_ConnectIdempotent ==
  [][(connState.client /\ connCall' \in {"connect", "__enter__"})
       => /\ connRet' = "returned_at_once"
          /\ connState' = connState
          /\ handlesOpened' = handlesOpened
          /\ handlesClosed' = handlesClosed]_vars

\* connect() was called on a connected Connection and returned at once
C20_Witness ==
  /\ connCall = "connect" /\ connRet = "returned_at_once"
  /\ connState.client /\ connState.db /\ ~connState.closed /\ handlesOpened = 1

\* C21: close() never raises and leaves the Connection closed, without handle
\* and without database reference; it calls the handle's close() once when
\* the Connection holds a handle and not at all when it holds none, so that a
\* close() that follows a close() changes nothing and releases nothing, and
\* no more handles are closed than were opened.
C21_CloseIdempotent ==
  [][connCall' = "close"
       => /\ connRet' = "returned"
          /\ connState' = [client |-> FALSE, db |-> FALSE, closed |-> TRUE]
          /\ handlesOpened' = handlesOpened
          /\ handlesClosed' = handlesClosed + (IF connState.client THEN 1 ELSE 0)
          /\ handlesClosed' <= handlesOpened
          /\ connCall = "close"
               => connState' = connState /\ handlesClosed' = handlesClosed]_vars

\* close() was called twice in a row on a Connection that had been connected:
\* one handle opened, one closed
C21_Witness ==
  /\ connPrev = "close" /\ connCall = "close" /\ connRet = "returned"
  /\ handlesOpened = 1 /\ handlesClosed = 1
  /\ connState.closed /\ ~connState.client

\* C22: Connection.execute() on a Connection that is closed or has no database
\* reference (not connected yet) raises InterfaceError and constructs no
\* Cursor; on any other Connection it returns a newly constructed Cursor that
\* is not executed and holds no result, and the driver receives no operation
\* call; in both cases the Connection's fields and handles stay as they were.
C22_ExecuteRefusedOrPending ==
  [][connCall' = "execute"
       => /\ connState' = connState
          /\ handlesOpened' = handlesOpened /\ handlesClosed' = handlesClosed
          /\ driverCalls' = driverCalls /\ driverRaised' = driverRaised
          /\ IF connState.closed \/ ~connState.db
               THEN /\ connRet' = "InterfaceError"
                    /\ cursorsCreated' = cursorsCreated
                    /\ UNCHANGED cursorVars
               ELSE /\ connRet' = "returned"
                    /\ cursorsCreated' = cursorsCreated + 1
                    /\ curCall' = "__init__"
                    /\ ~curExecuted' /\ curResult' = NoneResult
                    /\ curConn' = connState]_vars

\* execute() returned a pending Cursor on the connected Connection, and a
\* later execute(), after close(), was refused: still one Cursor, no driver call
C22_Witness ==
  /\ connCall = "execute" /\ connRet = "InterfaceError" /\ connState.closed
  /\ cursorsCreated = 1 /\ curCall = "__init__" /\ ~curExecuted
  /\ curConn = connState /\ driverCalls = 0

\* C23: a call of close() or __exit__ sets the closed flag, no method clears
\* it, and on a Connection whose closed flag is set each of collection(name),
\* database and client raises InterfaceError and leaves every field, the
\* handles and the cursors as they were.
C23_AccessorsFailAfterClose ==
  [][/\ connCall' \in {"close", "__exit__"} => connState'.closed
     /\ connState.closed => connState'.closed
     /\ (connState.closed /\ connCall' \in {"collection", "database", "client"})
          => /\ connRet' = "InterfaceError"
             /\ connState' = connState
             /\ handlesOpened' = handlesOpened /\ handlesClosed' = handlesClosed
             /\ cursorsCreated' = cursorsCreated
             /\ UNCHANGED cursorVars]_vars

\* the database accessor was refused on a Connection that was closed and
\* then connected again, so that it holds a handle and a database reference
C23_Witness ==
  /\ connCall = "database" /\ connRet = "InterfaceError"
  /\ connState.closed /\ connState.client /\ connState.db
  /\ handlesOpened = 1 /\ handlesClosed = 0

\* C24: when __enter__ has returned, so that the scope of the "with"
\* statement is entered, the Connection is not closed and holds a handle and
\* a database reference; when __exit__ has returned, on the normal path or
\* with an error raised in the scope, the Connection is closed and holds no
\* handle.
C24_ConnectedInScopeClosedAfter ==
  /\ (connCall = "__enter__" /\ connRet \in {"returned", "returned_at_once"})
       => ~connState.closed /\ connState.client /\ connState.db
  /\ connCall = "__exit__"
       => /\ connRet \in {"returned", "returned_error_propagates"}
          /\ connState.closed /\ ~connState.client /\ ~connState.db

\* C25: execute() on a pending cursor of an open Connection raises the
\* operation-failed error when the driver's call raised; when the cursor's
\* kind has no branch in the dispatch it raises an error of another kind than
\* that one, makes no driver operation call and leaves the cursor pending.
C25_UnknownOperationDistinct ==
  [][(curCall' = "execute" /\ curConn' = curConn
      /\ ~curExecuted /\ ~curConn.closed /\ curConn.db)
       => /\ driverRaised' > driverRaised => curRet' = OperationFailed
          /\ curOp \in UnknownOperations
               => /\ curRet' \notin {"returned", OperationFailed}
                  /\ driverCalls' = driverCalls
                  /\ ~curExecuted']_vars

\* C26 (as stated): for each of the kinds find, find_one, insert_one,
\* insert_many, update_one, update_many, delete_one, delete_many, replace_one,
\* aggregate and count, execute() on a pending cursor of an open Connection
\* makes exactly one driver call, of the method of that kind.
C26_SpecKindsDispatch ==
  [][(curCall' = "execute" /\ curConn' = curConn
      /\ ~curExecuted /\ ~curConn.closed /\ curConn.db
      /\ curOp \in {"find", "find_one", "insert_one", "insert_many", "update_one",
                    "update_many", "delete_one", "delete_many", "replace_one",
                    "aggregate", "count"})
       => /\ driverCalls' = driverCalls + 1
          /\ driverLast' = curOp]_vars

\* C26 (amended): the eleventh kind is count_documents: for each of the kinds
\* find, find_one, insert_one, insert_many, update_one, update_many,
\* delete_one, delete_many, replace_one, aggregate and count_documents,
\* execute() on a pending cursor of an open Connection makes exactly one
\* driver call, of the method of that kind, and either returns with the
\* cursor executed or raises the operation-failed error because that call
\* raised; for the kind count it makes no driver call.
C26_ElevenKindsDispatch ==
  [][(curCall' = "execute" /\ curConn' = curConn
      /\ ~curExecuted /\ ~curConn.closed /\ curConn.db)
       => /\ curOp \in {"find", "find_one", "insert_one", "insert_many", "update_one",
                        "update_many", "delete_one", "delete_many", "replace_one",
                        "aggregate", "count_documents"}
               => /\ driverCalls' = driverCalls + 1
                  /\ driverLast' = curOp
                  /\ \/ curRet' = "returned" /\ curExecuted'
                                             /\ driverRaised' = driverRaised
                     \/ curRet' = OperationFailed /\ ~curExecuted'
                                                  /\ driverRaised' = driverRaised + 1
          /\ curOp = "count"
               => driverCalls' = driverCalls /\ curRet' # "returned"]_vars

\* a count_documents cursor was executed by one driver call of that method
C26_Witness ==
  /\ curOp = "count_documents" /\ curCall = "execute" /\ curRet = "returned"
  /\ curExecuted /\ driverCalls = 1 /\ driverLast = "count_documents"
  /\ curResult.k = "int"

\* C27: on an aggregate cursor fetchone returns the next document of the
\* driver's sequence, mapped through the document factory, or None when none
\* is left; fetchmany(n) returns the next min(n, remaining) documents;
\* fetchall and iteration return all remaining documents; each call leaves
\* the documents after those it returned, so that the documents come in the
\* driver's order, each once.
C27_AggregateFetchesAsFind ==
  [][(curOp = "aggregate" /\ curConn' = curConn /\ curRet' = "returned"
      /\ curCall' \in {"fetchone", "fetchmany", "fetchall", "iter"})
       => LET before == IF curExecuted THEN curResult.docs ELSE curSource'
              n == CASE curCall' = "fetchone" -> 1
                     [] curCall' = "fetchmany" -> curArg'
                     [] OTHER -> Len(before)
              k == IF n < Len(before) THEN n ELSE Len(before)
          IN /\ curExecuted'
             /\ curOut' = IF curCall' = "fetchone"
                            THEN IF before = <<>> THEN NoneResult
                                 ELSE DocResult(DocumentFactory(before[1]))
                            ELSE IterResult([i \in 1..k |-> DocumentFactory(before[i])])
             /\ curResult'.docs = [i \in 1..(Len(before) - k) |-> before[i + k]]
             /\ Len(curResult'.docs) <= Len(curSource')
             /\ \A i \in 1..Len(curResult'.docs) :
                  curResult'.docs[i] =
                    curSource'[Len(curSource') - Len(curResult'.docs) + i]]_vars

\* C28: on a find cursor fetchone returns the next document of the driver's
\* sequence, mapped through the document factory, or None when none is left;
\* fetchmany(n) returns the next min(n, remaining) documents; fetchall
\* returns all remaining documents (none after that); each call leaves the
\* documents after those it returned, which are the end of the driver's
\* sequence, so that over any sequence of calls the documents come in the
\* driver's order, each once.
C28_FindFetchesInOrder ==
  [][(curOp = "find" /\ curConn' = curConn /\ curRet' = "returned"
      /\ curCall' \in {"fetchone", "fetchmany", "fetchall"})
       => LET before == IF curExecuted THEN curResult.docs ELSE curSource'
              n == CASE curCall' = "fetchone" -> 1
                     [] curCall' = "fetchmany" -> curArg'
                     [] OTHER -> Len(before)
              k == IF n < Len(before) THEN n ELSE Len(before)
          IN /\ curExecuted'
             /\ curOut' = IF curCall' = "fetchone"
                            THEN IF before = <<>> THEN NoneResult
                                 ELSE DocResult(DocumentFactory(before[1]))
                            ELSE IterResult([i \in 1..k |-> DocumentFactory(before[i])])
             /\ curResult'.docs = [i \in 1..(Len(before) - k) |-> before[i + k]]
             /\ Len(curResult'.docs) <= Len(curSource')
             /\ \A i \in 1..Len(curResult'.docs) :
                  curResult'.docs[i] =
                    curSource'[Len(curSource') - Len(curResult'.docs) + i]]_vars

\* a find cursor over two documents gave the first to an earlier call and
\* the second, and nothing more, to fetchall
C28_Witness ==
  /\ curOp = "find" /\ curExecuted /\ Len(curSource) = 2
  /\ curCall = "fetchall" /\ curRet = "returned"
  /\ curOut = IterResult(<<curSource[2]>>)
  /\ curResult.docs = <<>>

\* C29: reading rowcount returns a value and changes neither the executed
\* flag nor the result nor the driver's call counts; on a cursor that is not
\* executed the value is -1, and on an executed cursor of kind find,
\* find_one or aggregate it is -1 as well.
C29_RowcountPendingIsMinusOne ==
  [][(curCall' = "rowcount" /\ curConn' = curConn)
       => /\ curRet' = "returned" /\ curOut'.k = "int"
          /\ curExecuted' = curExecuted /\ curResult' = curResult
          /\ driverCalls' = driverCalls /\ driverRaised' = driverRaised
          /\ ~curExecuted => curOut'.n = -1
          /\ (curExecuted /\ curOp \in {"find", "find_one", "aggregate"})
               => curOut'.n = -1]_vars

\* rowcount was read on a pending insert_one cursor: -1, the cursor still
\* pending, the driver not called
C29_Witness ==
  /\ curOp = "insert_one" /\ curCall = "rowcount" /\ curRet = "returned"
  /\ curOut = IntResult(-1)
  /\ ~curExecuted /\ driverCalls = 0 /\ ~curConn.closed

\* C30: on a find_one cursor whose driver call returned None (no document
\* matched), every call of fetchone returns None, every call of fetchmany
\* and of fetchall returns the empty list, iteration yields nothing and
\* __next__ ends the iteration; none of them raises an error, calls the
\* driver again or changes the result.
C30_NoMatchIsNone ==
  [][(curOp = "find_one" /\ curConn' = curConn
      /\ curExecuted' /\ curResult'.k = "None"
      /\ curCall' \in {"fetchone", "fetchmany", "fetchall", "iter", "next"})
       => /\ curRet' = IF curCall' = "next" THEN "StopIteration" ELSE "returned"
          /\ curOut' = IF curCall' \in {"fetchone", "next"} THEN NoneResult
                       ELSE IterResult(<<>>)
          /\ curExecuted => driverCalls' = driverCalls /\ curResult' = curResult
          /\ driverCalls' <= driverCalls + 1]_vars

\* the one driver call of a find_one cursor found nothing, and fetchall
\* returned the empty list
C30_Witness ==
  /\ curOp = "find_one" /\ curExecuted /\ curResult = NoneResult
  /\ curCall = "fetchall" /\ curRet = "returned" /\ curOut = IterResult(<<>>)
  /\ driverCalls = 1 /\ driverRaised = 0

\* C31: on an executed cursor of kind insert_many, update_many or
\* delete_many, rowcount is the result's inserted count when the result has
\* one, else its modified count when it has one, else its deleted count when
\* it has one, else 0.
C31_ManyRowcountChain ==
  [][(curCall' = "rowcount" /\ curConn' = curConn /\ curExecuted
      /\ curOp \in {"insert_many", "update_many", "delete_many"})
       => /\ curRet' = "returned" /\ curOut'.k = "int"
          /\ curOut'.n =
               (CASE "inserted_count" \in curResult.has -> curResult.cnt.inserted_count
                  [] "inserted_count" \notin curResult.has
                     /\ "modified_count" \in curResult.has -> curResult.cnt.modified_count
                  [] {"inserted_count", "modified_count"} \cap curResult.has = {}
                     /\ "deleted_count" \in curResult.has -> curResult.cnt.deleted_count
                  [] OTHER -> 0)]_vars

\* rowcount of an update_many whose result has a modified count of 1 and a
\* deleted count of 2, and no inserted count: 1
C31_Witness ==
  /\ curOp = "update_many" /\ curExecuted /\ curCall = "rowcount"
  /\ curResult.has = {"modified_count", "deleted_count"}
  /\ curResult.cnt.modified_count = 1 /\ curResult.cnt.deleted_count = 2
  /\ curOut = IntResult(1)

\* C32: on an executed cursor of kind update_one, delete_one or replace_one,
\* rowcount is the count the write result reports, hence 0 when the filter
\* matched no document.
C32_OneRowcountIsReportedCount ==
  [][(curCall' = "rowcount" /\ curConn' = curConn /\ curExecuted
      /\ curOp \in {"update_one", "delete_one", "replace_one"})
       => /\ curRet' = "returned" /\ curOut'.k = "int"
          /\ curOut'.n = curResult.n]_vars

\* C33: execute(), called directly or by a fetch, iteration or __next__, on a
\* pending cursor whose Connection is closed raises InterfaceError, makes no
\* driver call and leaves the cursor pending and without result; hence the
\* driver is never called while the cursor's Connection is closed.
C33_NoDriverCallWhenClosed ==
  [][/\ (curConn.closed /\ curConn' = curConn)
          => driverCalls' = driverCalls /\ driverRaised' = driverRaised
     /\ (curConn.closed /\ curConn' = curConn /\ ~curExecuted
         /\ curCall' \in {"execute", "fetchone", "fetchmany", "fetchall", "iter", "next"})
          => /\ curRet' = "InterfaceError"
             /\ ~curExecuted'
             /\ curResult' = curResult]_vars

\* a fetchone on a pending cursor was refused after the Connection was closed
C33_Witness ==
  /\ curCall = "fetchone" /\ curRet = "InterfaceError"
  /\ curConn.closed /\ ~curExecuted /\ driverCalls = 0 /\ curOp = "insert_one"

\* C34: when connect(), called directly or by __enter__, has raised, the
\* Connection holds no driver handle and no database reference, so that
\* execute() and the accessors are refused and the next connect() opens a
\* handle again.
C34_FailedConnectLeavesUnconnected ==
  (connCall \in {"connect", "__enter__"} /\ connRet = "InterfaceError")
    => /\ ~connState.client /\ ~connState.db
       /\ ExecuteRaises(connState) /\ CollectionRaises(connState)
       /\ ClientRaises(connState)
       /\ OpensHandle(connState)

\* C35: when a getconn whose probe of the connection taken from the queue
\* failed has ended, that connection is closed; when a putconn that did not
\* leave its connection in the queue has ended, that connection is closed;
\* and when a closeall has ended, the connection it took from the queue last
\* is closed.
C35_DiscardedIsClosed ==
  /\ (done.call = "getconn" /\ done.probe = "fail" /\ done.taken # NoConn)
       => conns[done.taken].closed
  /\ (done.call = "putconn" /\ \A i \in 1..Len(pool) : pool[i] # done.conn)
       => conns[done.conn].closed
  /\ (done.call = "closeall" /\ done.taken # NoConn)
       => conns[done.taken].closed

\* C36: whenever control is outside the scope of the Transaction, every
\* driver session it started has been ended; and when __exit__ has run, the
\* transaction was committed on the normal path and aborted on the error
\* path unless commit or abort raised, and no session is held.
C36_SessionEndedOutsideScope ==
  /\ txPc = "out" => sessionsEnded = sessionsStarted
  /\ txCall = "__exit__"
       => /\ ~txSession
          /\ txRet = "returned" => txState = "committed"
          /\ txRet = "returned_error_propagates" => txState = "aborted"

\* C37: a listener thread pulls changes from, and delivers callbacks for,
\* only the change stream opened by the start() that created it: the thread
\* of an earlier start never pulls a change from the stream opened by a
\* later start, and never hands one to the callback.
C37_OneListenerThread ==
  \A p \in lsPulled \cup lsDelivered : p[1] = p[2]

\* C38: once start() has started a thread and returned, and as long as
\* stop() was not called and the stream it opened has not ended, the
\* listener is listening and the thread of that start is in the listen loop.
C38_StaysListening ==
  (/\ lsPc = "idle" /\ lsThread # 0 /\ ~lsStopped
   /\ lsThread \notin lsEnded)
    => /\ lsListening
       /\ lsT[lsThread].pc \in LoopPositions

\* C39: a call of apply_migration for a version already recorded executes no
\* operation and leaves the records unchanged; a call that records a version
\* has executed every one of its operations; and for every recorded version
\* there was exactly one call in which all of its operations were executed.
C39_RecordedExecutedOnce ==
  /\ (mgCall = "apply_migration" /\ mgVersion \in mgPrev)
       => mgDone = 0 /\ mgRecorded = mgPrev
  /\ (mgCall = "apply_migration" /\ mgRecorded # mgPrev)
       => /\ mgRecorded = mgPrev \cup {mgVersion}
          /\ mgDone = Len(OperationsOf(mgVersion))
  /\ \A v \in mgRecorded : mgComplete[v] = 1

\* C40: on an executed cursor of any kind, repeated __next__ calls reach
\* StopIteration (within one call more than the documents a result can
\* hold), and after __next__ of a find_one cursor has returned the matched
\* document, the following __next__ returns no document.
C40_NextTerminates ==
  /\ curExecuted => Exhausts(curResult, MaxDocs + 1)
  /\ (curOp = "find_one" /\ curCall = "next" /\ curRet = "returned")
       => FetchOne(curResult).out.k = "None"

====
